---------------------------- MODULE Spec2Model ----------------------------
(***************************************************************************)
(* Resilience and caching stack of the fastapi-demo service:               *)
(*   - CircuitBreaker        (app/middleware/resilience.py)                *)
(*   - RateLimitMiddleware   (app/middleware/resilience.py)                *)
(*   - TimeoutMiddleware     (app/middleware/resilience.py)                *)
(*   - CacheService          (app/services/cache.py)                       *)
(* Time (time.time(), datetime.utcnow()) is one integer clock, in seconds. *)
(* Coroutines run on one asyncio event loop: code between two suspension   *)
(* points is one atomic step.                                              *)
(***************************************************************************)
EXTENDS Integers, Sequences, FiniteSets, Bags, TLC

\* ------------------------------------------------------------------ bounds
MaxTime == 3
NumCallers == 2
NumRequests == 2
NumTasks == 2
MaxCacheOps == 3
MaxPatternOps == 4
MaxMutations == 2

\* rate-limit settings (model values of the configurable quotas)
RATE_LIMIT_REQUESTS == 2
RATE_LIMIT_WINDOW_SECONDS == 1
AUTH_RATE_LIMIT_REQUESTS == 1
AUTH_RATE_LIMIT_WINDOW_SECONDS == 2
UPLOAD_RATE_LIMIT_REQUESTS == 1
UPLOAD_RATE_LIMIT_WINDOW_SECONDS == 2

\* sub-second clock readings: time.time() in ticks of 1/Resolution second
Resolution == 4

\* TimeoutMiddleware(timeout=settings.REQUEST_TIMEOUT) (model value), and
\* the number of steps a downstream handler takes at most
REQUEST_TIMEOUT == 2
MaxAppSteps == 2

\* MetricsMiddleware: deque(maxlen=1000) (model value) and the number of
\* requests the model follows
ResponseTimesMaxlen == 2
MaxMetricRequests == 3

\* cache_result: the decorator's ttl (model value) and the number of calls
\* of the wrapped function the model follows
cache_result_ttl == 1
MaxWrapperCalls == 3

\* async_retry: the largest max_attempts the model follows, and the
\* decorator's default delay and backoff
MaxAttempts == 3
delay == 1
backoff == 2

\* gather_with_concurrency: the number of coroutines given
NumCoroutines == 3

\* cleanup task: the numbers of start/stop calls, loop tasks and sweep
\* cycles the model follows
MaxLifecycleCalls == 4
MaxLoops == 3
MaxSweeps == 2

\* user routes: the number of requests the model follows
MaxCrudRequests == 3

\* CircuitBreaker constructor arguments (model values)
failure_threshold == 2
timeout == 2

VARIABLES
    now,                 \* the clock: time.time() / datetime.utcnow()
    \* --- CircuitBreaker
    state,               \* self.state
    failure_count,       \* self.failure_count
    last_failure_time,   \* self.last_failure_time (None or a timestamp)
    expected_exception,  \* self.expected_exception
    cb_pc,               \* position of each task using "async with breaker"
    recorded,            \* history: failures recorded since the last reset
    lastFailAt,          \* history: time of the last recorded failure
    run,                 \* history: current run of consecutive failures
    \* --- RateLimitMiddleware
    rate_limit_enabled,  \* settings.RATE_LIMIT_ENABLED
    client_requests,     \* self.client_requests: client_ip -> deque
    inflight,            \* requests suspended in "await call_next(request)"
    rl_resp,             \* the response the last step returned, if any
    admitted,            \* history: admissions per (client, class) that are
                         \* still inside the window of their class
    path_of,             \* single-class scenario: the path each client uses
    retry,               \* a rejection at a sub-second clock reading: the
                         \* oldest timestamp, the window, now and retry_after
    \* --- CacheService
    cache,               \* self._cache: key -> CacheEntry
    stats,               \* self._stats
    cache_pc,            \* the cache call each task has scheduled, if any
    cache_ret,           \* what the cache call run by the last step returned
    ncalls,              \* number of cache calls made so far
    gets,                \* history: number of get calls that have returned
    lastSet,             \* history: per key, the last set that no delete,
                         \* clear or invalidation has followed
    snap,                \* history: what each task saw of ran/stale when
                         \* its call was made
    ran,                 \* history: per key, the writes that have run
    stale,               \* history: per key, the writes that had run before
                         \* a later write, itself run, was called
    tm,                  \* TimeoutMiddleware: per request, the position of
                         \* dispatch, the downstream application started by
                         \* call_next, and what reached the caller
    metrics,             \* MetricsMiddleware: self.metrics
    m_inflight,          \* requests suspended in "await call_next(request)"
    m_durations,         \* history: every duration recorded, in order
    w_pc,                \* cache_result: per task, the position of the wrapper
    w_done,              \* history: the completed calls of func
    ar,                  \* async_retry: the wrapper's position, attempt and
                         \* current_delay
    ar_calls,            \* history: the outcome of every invocation of func
    semaphore,           \* gather_with_concurrency: asyncio.Semaphore(n)
    children,            \* the sem_task of every coroutine given
    g_pc,                \* the caller awaiting gather_with_concurrency
    cleanup_task,        \* CacheService._cleanup_task: None or a loop task
    loops,               \* the _cleanup_loop tasks created so far
    lc_pc,               \* per caller, the position in stop_cleanup_task
    lc_log,              \* history: lifecycle calls made, sweeps run, sweeps
                         \* after a stop
    db_user,             \* InMemoryDatabase: the stored record of user 1
                         \* (its version)
    handlers,            \* per task, the position of the route handler it runs
    running,             \* the handler that has the event loop, 0 if none
    crud_log,            \* history: completed updates and the GET responses
    heap,                \* the objects callers pass to set: object -> content
                         \* (the number of times it has been mutated)
    held                 \* the objects a caller holds a reference to

cbVars == <<state, failure_count, last_failure_time, expected_exception,
            cb_pc, recorded, lastFailAt, run>>
rlVars == <<rate_limit_enabled, client_requests, inflight, rl_resp,
            admitted, path_of, retry>>
linVars == <<snap, ran, stale>>
refVars == <<heap, held>>
cacheVars == <<cache, stats, cache_pc, cache_ret, ncalls, gets, lastSet,
               linVars, refVars>>
metricVars == <<metrics, m_inflight, m_durations>>
wrapVars == <<w_pc, w_done>>
retryVars == <<ar, ar_calls>>
gatherVars == <<semaphore, children, g_pc>>
cleanupVars == <<cleanup_task, loops, lc_pc, lc_log>>
crudVars == <<db_user, handlers, running, crud_log>>
moreVars == <<metricVars, wrapVars, retryVars, gatherVars, cleanupVars,
              crudVars>>
vars == <<now, cbVars, rlVars, cacheVars, tm, moreVars>>

\* ------------------------------------------------------- optional values
\* Python's None for an optional timestamp
None == -1

\* Truth value of an optional float: None and 0.0 are both falsy
Truthy(t) == t # None /\ t # 0

\* --------------------------------------------------------- CircuitBreaker
Callers == 1..NumCallers

\* the exception classes a guarded operation may raise, with their bases
ExcTypes == {"ConnectionError", "ValueError", "CancelledError"}
Classes == {"BaseException", "Exception", "OSError", "ConnectionError",
            "ValueError", "CancelledError"}
Base(cls) ==
    CASE cls = "ConnectionError" -> "OSError"
      [] cls = "OSError"         -> "Exception"
      [] cls = "ValueError"      -> "Exception"
      [] cls = "Exception"       -> "BaseException"
      [] cls = "CancelledError"  -> "BaseException"
      [] OTHER                   -> "BaseException"

RECURSIVE IsSubclass(_, _)
IsSubclass(cls, of) ==
    IF cls = of THEN TRUE
    ELSE IF cls = "BaseException" THEN FALSE
    ELSE IsSubclass(Base(cls), of)

\* no cap on failure_count in the code; the model stops counting here
MaxFailureCount == failure_threshold + 2

CBInit ==
    /\ state = "CLOSED"
    /\ failure_count = 0
    /\ last_failure_time = None
    /\ expected_exception \in {"Exception", "OSError"}
    /\ cb_pc = [c \in Callers |-> "idle"]
    /\ recorded = 0
    /\ lastFailAt = None
    /\ run = 0

TimeoutElapsed_always == Truthy(last_failure_time)

\* __aenter__, lines 82-83: the timeout has elapsed since the last failure
TimeoutElapsed ==
    Truthy(last_failure_time) /\ now - last_failure_time >= timeout

\* __aenter__
AEnter(c) ==
    /\ cb_pc[c] = "idle"
    /\ IF state = "OPEN"
       THEN IF TimeoutElapsed
            THEN /\ state' = "HALF_OPEN"
                 /\ cb_pc' = [cb_pc EXCEPT ![c] = "running"]
            ELSE \* raise HTTPException(503): the body is not entered
                 /\ state' = state
                 /\ cb_pc' = [cb_pc EXCEPT ![c] = "rejected"]
       ELSE /\ state' = state
            /\ cb_pc' = [cb_pc EXCEPT ![c] = "running"]
    /\ UNCHANGED <<now, failure_count, last_failure_time, expected_exception,
                   recorded, lastFailAt, run>>
    /\ UNCHANGED <<rlVars, cacheVars, tm, moreVars>>

\* the HTTPException raised by __aenter__ reaches the caller
CBRejected(c) ==
    /\ cb_pc[c] = "rejected"
    /\ cb_pc' = [cb_pc EXCEPT ![c] = "idle"]
    /\ UNCHANGED <<now, state, failure_count, last_failure_time,
                   expected_exception, recorded, lastFailAt, run>>
    /\ UNCHANGED <<rlVars, cacheVars, tm, moreVars>>

StateAfterSuccess_close(st) == "CLOSED"

\* __aexit__, lines 98-101: state after a success
StateAfterSuccess(st) == IF st = "HALF_OPEN" THEN "CLOSED" ELSE st

CountAfterSuccess_keep(st, fc) == fc

\* __aexit__, lines 98-101: failure_count after a success
CountAfterSuccess(st, fc) == IF st = "HALF_OPEN" THEN 0 ELSE fc

StateAfterFailure_gt(st, fc) ==
    IF fc > failure_threshold THEN "OPEN" ELSE st

\* __aexit__, lines 109-110: state after a failure that made the count fc
StateAfterFailure(st, fc) ==
    IF fc >= failure_threshold THEN "OPEN" ELSE st

\* __aexit__ with exc_type is None
ExitSuccess(c) ==
    /\ cb_pc[c] = "running"
    /\ cb_pc' = [cb_pc EXCEPT ![c] = "idle"]
    /\ state' = StateAfterSuccess(state)
    /\ failure_count' = CountAfterSuccess(state, failure_count)
    /\ recorded' = IF state = "HALF_OPEN" THEN 0 ELSE recorded
    /\ run' = 0
    /\ UNCHANGED <<now, last_failure_time, expected_exception, lastFailAt>>
    /\ UNCHANGED <<rlVars, cacheVars, tm, moreVars>>

\* __aexit__ with an exception of class exc
ExitRaise(c, exc) ==
    /\ cb_pc[c] = "running"
    /\ cb_pc' = [cb_pc EXCEPT ![c] = "idle"]
    /\ IF IsSubclass(exc, expected_exception)
       THEN /\ failure_count < MaxFailureCount
            /\ failure_count' = failure_count + 1
            /\ last_failure_time' = now
            /\ state' = StateAfterFailure(state, failure_count + 1)
            /\ recorded' = recorded + 1
            /\ lastFailAt' = now
            /\ run' = run + 1
       ELSE UNCHANGED <<failure_count, last_failure_time, state,
                        recorded, lastFailAt, run>>
    /\ UNCHANGED <<now, expected_exception>>
    /\ UNCHANGED <<rlVars, cacheVars, tm, moreVars>>

\* ------------------------------------------------- CircuitBreaker: claims
\* a guarded call of c ends with an exception the breaker counts
FailingExit(c) ==
    \E exc \in ExcTypes :
        IsSubclass(exc, expected_exception) /\ ExitRaise(c, exc)

\* a guarded call of c ends with an exception the breaker does not count
NonMatchingExit(c) ==
    \E exc \in ExcTypes :
        ~IsSubclass(exc, expected_exception) /\ ExitRaise(c, exc)

\* C3: from CLOSED with failure_count = 0, failure_threshold failures open
\* the breaker and fewer leave it CLOSED; last_failure_time is the time of
\* the last failure; failure_count is the number of failures recorded since
\* the last reset, whatever the interleaving of the callers.
C3_FailuresOpen ==
    /\ failure_count = recorded
    /\ last_failure_time = lastFailAt
    /\ (state = "CLOSED" <=> failure_count < failure_threshold)
    /\ (state # "CLOSED" => last_failure_time # None)

C3_Witness ==
    /\ state = "OPEN"
    /\ failure_count = failure_threshold
    /\ run = failure_threshold
    /\ last_failure_time = now
    /\ now > 0

\* C4: a success while CLOSED leaves the breaker CLOSED with
\* failure_count = 0, so the breaker leaves CLOSED only after
\* failure_threshold consecutive failures.
C4_SuccessResetsCount ==
    [][ /\ \A c \in Callers :
              (state = "CLOSED" /\ ExitSuccess(c))
                  => (state' = "CLOSED" /\ failure_count' = 0)
        /\ (state = "CLOSED" /\ state' = "OPEN")
              => run' >= failure_threshold ]_vars

\* C5: while OPEN and before timeout seconds have passed since
\* last_failure_time, an attempted call is rejected at entry: the body is
\* not run and state, failure_count and last_failure_time keep their values.
C5_RejectedWhileOpen ==
    [][ \A c \in Callers :
          ( /\ state = "OPEN"
            /\ last_failure_time # None
            /\ now - last_failure_time < timeout
            /\ AEnter(c) )
          => ( /\ cb_pc'[c] = "rejected"
               /\ state' = "OPEN"
               /\ failure_count' = failure_count
               /\ last_failure_time' = last_failure_time ) ]_vars

C5_Witness ==
    \E c \in Callers :
        /\ cb_pc[c] = "rejected"
        /\ state = "OPEN"
        /\ now - last_failure_time < timeout

C7_HalfOpenOutcome ==
    [][ /\ \A c \in Callers :
              (state = "HALF_OPEN" /\ ExitSuccess(c))
                  => (state' = "CLOSED" /\ failure_count' = 0)
        /\ \A c \in Callers :
              (state = "HALF_OPEN" /\ FailingExit(c))
                  => (state' = "OPEN" /\ last_failure_time' = now)
        /\ (state # "CLOSED" /\ state' = "CLOSED")
              => failure_count' = 0 ]_vars

C7_Witness ==
    /\ state = "CLOSED"
    /\ failure_count = 0
    /\ last_failure_time # None
    /\ \A c \in Callers : cb_pc[c] = "idle"

\* C8: an outcome that is not an error of the configured class (a normal
\* return or an exception of another class) is recorded as a success: it
\* never increments failure_count and while HALF_OPEN it closes the breaker.
C8_NonMatchingIsSuccess ==
    [][ \A c \in Callers :
          (ExitSuccess(c) \/ NonMatchingExit(c))
          => ( /\ failure_count' <= failure_count
               /\ state = "HALF_OPEN" => state' = "CLOSED" ) ]_vars

\* ---------------------------------------------------- RateLimitMiddleware
\* request.client.host of the requests; NoClient is request.client = None
ClientHosts == {"1.2.3.4"}
NoClient == "None"

ClientIp_shared(client) == "unknown"

\* line 203
ClientIp(client) == IF client = NoClient THEN "unknown" ELSE client

ClientIps == {ClientIp(c) : c \in ClientHosts \cup {NoClient}}

\* request.url.path, as the sequence of its segments
Paths == { <<"api", "v1", "security", "login">>,
           <<"api", "v1", "files", "upload">>,
           <<"api", "v1", "users">> }
AuthPrefix == <<"api", "v1", "security">>
UploadPrefix == <<"api", "v1", "files">>

\* str.startswith
StartsWith(s, prefix) ==
    /\ Len(prefix) <= Len(s)
    /\ \A i \in 1..Len(prefix) : s[i] = prefix[i]

\* _get_limit_for_endpoint: (max_requests, window_seconds)
LimitForEndpoint(path) ==
    IF StartsWith(path, AuthPrefix)
    THEN <<AUTH_RATE_LIMIT_REQUESTS, AUTH_RATE_LIMIT_WINDOW_SECONDS>>
    ELSE IF StartsWith(path, UploadPrefix)
    THEN <<UPLOAD_RATE_LIMIT_REQUESTS, UPLOAD_RATE_LIMIT_WINDOW_SECONDS>>
    ELSE <<RATE_LIMIT_REQUESTS, RATE_LIMIT_WINDOW_SECONDS>>

\* the endpoint class _get_limit_for_endpoint puts a path in
EndpointClass(path) ==
    IF StartsWith(path, AuthPrefix) THEN "auth"
    ELSE IF StartsWith(path, UploadPrefix) THEN "upload"
    ELSE "general"

EndpointClasses == {EndpointClass(p) : p \in Paths}

\* the quota of a class, as _get_limit_for_endpoint returns it
ClassLimit(cls) ==
    LimitForEndpoint(CHOOSE p \in Paths : EndpointClass(p) = cls)

\* lines 217-218: popleft while the head is older than the window
RECURSIVE Purge(_, _)
Purge(queue, horizon) ==
    IF queue # <<>> /\ Head(queue) < horizon
    THEN Purge(Tail(queue), horizon)
    ELSE queue

LimitExceeded_gt(queue, max_requests) == Len(queue) > max_requests

\* line 221
LimitExceeded(queue, max_requests) == Len(queue) >= max_requests

\* line 223: int(oldest_request + window_seconds - now) + 1
RetryAfter(oldest_request, window_seconds, t) ==
    (oldest_request + window_seconds - t) + 1

\* int(): a number of ticks truncated toward zero to whole seconds
IntSeconds(ticks) ==
    IF ticks >= 0 THEN ticks \div Resolution
    ELSE 0 - ((0 - ticks) \div Resolution)

RetryAfterTicks_ceil(oldest_request, window_seconds, t) ==
    (oldest_request + window_seconds * Resolution - t + Resolution - 1)
        \div Resolution

\* line 223 with oldest_request and now in ticks:
\* int(oldest_request + window_seconds - now) + 1
RetryAfterTicks(oldest_request, window_seconds, t) ==
    IntSeconds(oldest_request + window_seconds * Resolution - t) + 1

\* line 253
Remaining(max_requests, queue) ==
    IF max_requests - Len(queue) > 0 THEN max_requests - Len(queue) ELSE 0

\* no response was returned by the last step (a 429 response is recorded
\* with the client and the endpoint class of its request)
NoResp == [status |-> 0]

\* the history of admissions at time t: those of each (client, class) that
\* lie in the window of that class ending at t
InWindow(hist, t) ==
    [key \in DOMAIN hist |->
        SelectSeq(hist[key], LAMBDA ts : ts >= t - ClassLimit(key[2])[2])]

\* no rejection has been computed
NoRetry == [retry_after |-> 0]

\* the clock readings, in ticks, and the windows of the rejections computed
Ticks == 0..(MaxTime * Resolution)
Windows == 1..MaxTime

RLInit ==
    /\ rate_limit_enabled \in BOOLEAN
    /\ client_requests = [ip \in {} |-> <<>>]
    /\ inflight = EmptyBag
    /\ rl_resp = NoResp
    /\ admitted = [key \in ClientIps \X EndpointClasses |-> <<>>]
    /\ retry = NoRetry

\* dispatch, lines 198-249: from the call up to "await call_next(request)"
\* or up to the 429 response
Dispatch(client, path) ==
    /\ BagCardinality(inflight) < NumRequests
    /\ IF ~rate_limit_enabled
       THEN /\ inflight' = inflight (+) SetToBag({[limited |-> FALSE]})
            /\ rl_resp' = NoResp
            /\ UNCHANGED <<client_requests, admitted>>
       ELSE LET client_ip == ClientIp(client)
                limit == LimitForEndpoint(path)
                max_requests == limit[1]
                window_seconds == limit[2]
                queues == IF client_ip \in DOMAIN client_requests
                          THEN client_requests
                          ELSE (client_ip :> <<>>) @@ client_requests
                client_queue == Purge(queues[client_ip], now - window_seconds)
            IN  IF LimitExceeded(client_queue, max_requests)
                THEN /\ client_requests' =
                            [queues EXCEPT ![client_ip] = client_queue]
                     /\ rl_resp' =
                            [status |-> 429,
                             retry_after |-> RetryAfter(client_queue[1],
                                                 window_seconds, now),
                             client_ip |-> client_ip,
                             cls |-> EndpointClass(path)]
                     /\ UNCHANGED <<inflight, admitted>>
                ELSE /\ client_requests' =
                            [queues EXCEPT ![client_ip] =
                                 Append(client_queue, now)]
                     /\ inflight' = inflight (+) SetToBag({
                            [limited |-> TRUE, client_ip |-> client_ip,
                             max_requests |-> max_requests,
                             window_seconds |-> window_seconds,
                             now |-> now]})
                     /\ rl_resp' = NoResp
                     /\ admitted' =
                            [admitted EXCEPT
                                ![<<client_ip, EndpointClass(path)>>] =
                                    Append(@, now)]
    /\ UNCHANGED <<now, rate_limit_enabled, path_of, retry, cbVars,
                   cacheVars, tm, moreVars>>

\* dispatch, lines 200 and 249-256: call_next has returned its response
CallNextReturns(req) ==
    /\ BagIn(req, inflight)
    /\ inflight' = inflight (-) SetToBag({req})
    /\ rl_resp' =
          IF ~req.limited
          THEN [status |-> 200]
          ELSE [status |-> 200,
                limit |-> req.max_requests,
                remaining |-> Remaining(req.max_requests,
                                        client_requests[req.client_ip]),
                reset |-> req.now + req.window_seconds]
    /\ UNCHANGED <<now, rate_limit_enabled, client_requests, admitted,
                   path_of, retry, cbVars, cacheVars, tm,
                   moreVars>>

\* lines 217-223 at a sub-second clock reading t: the purge has kept
\* oldest_request (not older than the window) and the limit is reached
Reject(oldest_request, window_seconds, t) ==
    /\ oldest_request <= t
    /\ ~(oldest_request < t - window_seconds * Resolution)
    /\ retry' = [oldest_request |-> oldest_request,
                 window_seconds |-> window_seconds, now |-> t,
                 retry_after |-> RetryAfterTicks(oldest_request,
                                     window_seconds, t)]
    /\ UNCHANGED <<now, rate_limit_enabled, client_requests, inflight,
                   rl_resp, admitted, path_of, cbVars, cacheVars,
                   tm, moreVars>>

\* -------------------------------------------------------- TimeoutMiddleware
\* dispatch wraps "call_next(request)" in asyncio.wait_for.  call_next (of
\* BaseHTTPMiddleware) starts the downstream application as a task of its
\* own and waits for that task's first response message; the handlers
\* downstream await thread-pool work (run_in_executor).  wait_for cancels the
\* awaitable it was given, call_next, and that is all it cancels.
TMRequests == 1..NumRequests

\* a request that has not reached the middleware
TMIdle == [pc |-> "idle", started |-> 0, app |-> "none", steps |-> 0,
           outcomes |-> <<>>, returned |-> 0, late |-> 0]

TMInit == tm = [r \in TMRequests |-> TMIdle]

\* the deadline of asyncio.wait_for(..., timeout=self.timeout)
Deadline(r) == tm[r].started + REQUEST_TIMEOUT

\* dispatch, lines 296-299: wait_for is entered, call_next starts the
\* downstream application and waits for its response
TMDispatch(r) ==
    /\ tm[r].pc = "idle"
    /\ tm' = [tm EXCEPT ![r] = [TMIdle EXCEPT !.pc = "waiting",
                                              !.started = now,
                                              !.app = "running"]]
    /\ UNCHANGED <<now, cbVars, rlVars, cacheVars, moreVars>>

\* the downstream application takes a step (a write, a call, a piece of
\* thread-pool work); a step taken after an outcome has reached the caller
\* is counted in late
AppStep(r) ==
    /\ tm[r].app = "running"
    /\ tm[r].steps < MaxAppSteps
    /\ tm' = [tm EXCEPT ![r].steps = @ + 1,
                        ![r].late = IF tm[r].pc = "returned"
                                    THEN @ + 1 ELSE @]
    /\ UNCHANGED <<now, cbVars, rlVars, cacheVars, moreVars>>

\* the downstream application finishes with its response; call_next, if it
\* still waits, has the response to return
AppResponds(r) ==
    /\ tm[r].app = "running"
    /\ tm' = [tm EXCEPT ![r].app = "responded"]
    /\ UNCHANGED <<now, cbVars, rlVars, cacheVars, moreVars>>

\* the downstream application raises; call_next re-raises it
AppRaises(r) ==
    /\ tm[r].app = "running"
    /\ tm' = [tm EXCEPT ![r].app = "raised"]
    /\ UNCHANGED <<now, cbVars, rlVars, cacheVars, moreVars>>

\* lines 296-300: wait_for returns what call_next returned (or raises what
\* it raised), and dispatch returns it
WaitForReturns(r) ==
    /\ tm[r].pc = "waiting"
    /\ tm[r].app \in {"responded", "raised"}
    /\ tm' = [tm EXCEPT ![r].pc = "returned",
                        ![r].returned = now,
                        ![r].outcomes = Append(@, tm[r].app)]
    /\ UNCHANGED <<now, cbVars, rlVars, cacheVars, moreVars>>

\* wait_for's timer has fired and call_next has nothing to return yet
TimedOut(r) ==
    /\ now >= Deadline(r)
    /\ tm[r].app = "running"

\* lines 296-317: the timer fires, wait_for cancels call_next, which is
\* suspended waiting for the response and ends with CancelledError;
\* wait_for raises TimeoutError and dispatch returns the 504 response
WaitForTimeout(r) ==
    /\ tm[r].pc = "waiting"
    /\ TimedOut(r)
    /\ tm' = [tm EXCEPT ![r].pc = "returned",
                        ![r].returned = now,
                        ![r].outcomes = Append(@, "timeout")]
    /\ UNCHANGED <<now, cbVars, rlVars, cacheVars, moreVars>>

\* ------------------------------------------------ TimeoutMiddleware: claims
\* C20: for each request exactly one outcome reaches the caller: the
\* operation's own response if it completes before the timeout has
\* elapsed, otherwise the timeout signal (504), never both and never
\* neither; and when the timeout signal is returned the wrapped operation
\* has been cancelled and takes no further step afterwards.
C20_OneOutcomeAndCancelled ==
    \A r \in TMRequests :
        /\ tm[r].pc = "returned" <=> Len(tm[r].outcomes) = 1
        /\ Len(tm[r].outcomes) <= 1
        /\ tm[r].outcomes = <<"timeout">> =>
              /\ tm[r].returned >= Deadline(r)
              /\ tm[r].app # "running"
              /\ tm[r].late = 0
        /\ (tm[r].pc = "returned" /\ tm[r].outcomes # <<"timeout">>) =>
              /\ tm[r].returned <= Deadline(r)
              /\ tm[r].outcomes = <<tm[r].app>>

\* ------------------------------------------------------------ CacheService
Tasks == 1..NumTasks

\* cache keys, as sequences of pieces of the key string
Keys == { <<"user:", "1:", "a">>, <<"user:", "2:", "a">> }

\* the keys of the pattern-invalidation scenario (test_cache.py, 240-257)
PatternKeys == Keys \cup { <<"user:", "1:", "b">> }

\* the patterns passed to invalidate_pattern
Patterns == { <<"user:", "1:">> }

\* CacheService.__init__(default_ttl=300)
default_ttl == 300

\* the ttl argument of set: <<>> is None (omitted), <<n>> is n seconds
TtlArgs == { <<>>, <<1>> }

\* the values stored by set
Values == {1, 2}

\* Python's None as a cache value or result
Absent == 0

IsExpired_ge(entry, t) == t >= entry.expires_at

\* CacheEntry.is_expired
IsExpired(entry, t) == t > entry.expires_at

\* dict without one key
Without(c, key) == [k \in DOMAIN c \ {key} |-> c[k]]

GetOp_missOnly(c, st, key, t) ==
    IF key \notin DOMAIN c
    THEN [cache |-> c, stats |-> [st EXCEPT !.misses = @ + 1],
          ret |-> Absent]
    ELSE IF IsExpired(c[key], t)
    THEN [cache |-> Without(c, key),
          stats |-> [st EXCEPT !.misses = @ + 1],
          ret |-> Absent]
    ELSE [cache |-> [c EXCEPT ![key].hits = @ + 1],
          stats |-> [st EXCEPT !.hits = @ + 1],
          ret |-> c[key].value]

\* get, lines 168-185
GetOp(c, st, key, t) ==
    IF key \notin DOMAIN c
    THEN [cache |-> c, stats |-> [st EXCEPT !.misses = @ + 1],
          ret |-> Absent]
    ELSE IF IsExpired(c[key], t)
    THEN [cache |-> Without(c, key),
          stats |-> [st EXCEPT !.misses = @ + 1, !.evictions = @ + 1],
          ret |-> Absent]
    ELSE [cache |-> [c EXCEPT ![key].hits = @ + 1],
          stats |-> [st EXCEPT !.hits = @ + 1],
          ret |-> c[key].value]

\* set, lines 204-205
EffectiveTtl(ttl) == IF ttl = <<>> THEN default_ttl ELSE ttl[1]

SetOp_keepExisting(c, st, key, value, ttl, t) ==
    [cache |-> IF key \in DOMAIN c THEN c
               ELSE (key :> [value |-> value,
                             expires_at |-> t + EffectiveTtl(ttl),
                             created_at |-> t, hits |-> 0]) @@ c,
     stats |-> [st EXCEPT !.sets = @ + 1],
     ret |-> Absent]

\* set, lines 204-218
SetOp(c, st, key, value, ttl, t) ==
    [cache |-> (key :> [value |-> value,
                        expires_at |-> t + EffectiveTtl(ttl),
                        created_at |-> t, hits |-> 0]) @@ c,
     stats |-> [st EXCEPT !.sets = @ + 1],
     ret |-> Absent]

\* delete, lines 233-239
DeleteOp(c, st, key) ==
    IF key \in DOMAIN c
    THEN [cache |-> Without(c, key),
          stats |-> [st EXCEPT !.deletes = @ + 1], ret |-> TRUE]
    ELSE [cache |-> c, stats |-> st, ret |-> FALSE]

\* clear, lines 248-251
ClearOp(c, st) ==
    [cache |-> [k \in {} |-> Absent], stats |-> st, ret |-> Absent]

KeysByPattern_all(c, pattern) == DOMAIN c

ExistsOp_countsHit(c, st, key, t) ==
    IF key \in DOMAIN c /\ ~IsExpired(c[key], t)
    THEN [cache |-> [c EXCEPT ![key].hits = @ + 1],
          stats |-> [st EXCEPT !.hits = @ + 1], ret |-> TRUE]
    ELSE [cache |-> c, stats |-> st, ret |-> FALSE]

\* exists, lines 263-267
ExistsOp(c, st, key, t) ==
    [cache |-> c, stats |-> st,
     ret |-> key \in DOMAIN c /\ ~IsExpired(c[key], t)]

\* get_keys_by_pattern, lines 305-309
KeysByPattern(c, pattern) == {k \in DOMAIN c : StartsWith(k, pattern)}

\* get_keys_by_pattern as a call: the list returned, as the set of its keys
KeysOp(c, st, pattern) ==
    [cache |-> c, stats |-> st, ret |-> KeysByPattern(c, pattern)]

\* get_stats, lines 281-284: round(hits / total * 100, 2), in hundredths of
\* a percent
HitRatePercent(st) ==
    LET total_requests == st.hits + st.misses
    IN  IF total_requests > 0
        THEN (2 * st.hits * 10000 + total_requests) \div (2 * total_requests)
        ELSE 0

\* get_stats, lines 280-290: a new dict built from self._stats
StatsOp(c, st) ==
    [cache |-> c, stats |-> st,
     ret |-> [hits |-> st.hits, misses |-> st.misses, sets |-> st.sets,
              deletes |-> st.deletes, evictions |-> st.evictions,
              entries |-> Cardinality(DOMAIN c),
              hit_rate_percent |-> HitRatePercent(st)]]

\* invalidate_pattern, lines 326-331: delete of every key found
InvalidateOp(c, st, pattern) ==
    LET keys == KeysByPattern(c, pattern)
    IN  [cache |-> [k \in DOMAIN c \ keys |-> c[k]],
         stats |-> [st EXCEPT !.deletes = @ + Cardinality(keys)],
         ret |-> Cardinality(keys)]

CleanupExpired_countCycles(c, st, t) ==
    LET expired_keys == {k \in DOMAIN c : IsExpired(c[k], t)}
    IN  [cache |-> [k \in DOMAIN c \ expired_keys |-> c[k]],
         stats |-> [st EXCEPT !.evictions = @ + 1]]

\* _cleanup_expired, lines 139-147
CleanupExpired(c, st, t) ==
    LET expired_keys == {k \in DOMAIN c : IsExpired(c[k], t)}
    IN  [cache |-> [k \in DOMAIN c \ expired_keys |-> c[k]],
         stats |-> [st EXCEPT !.evictions = @ + Cardinality(expired_keys)]]

NoOp == [op |-> "none"]
NoRet == [op |-> "none"]
NoSet == [value |-> Absent, at |-> 0, ttl |-> 0]

CacheInit ==
    /\ cache = [k \in {} |-> Absent]
    /\ stats = [hits |-> 0, misses |-> 0, sets |-> 0, deletes |-> 0,
                evictions |-> 0]
    /\ cache_pc = [t \in Tasks |-> NoOp]
    /\ cache_ret = NoRet
    /\ ncalls = 0
    /\ gets = 0
    /\ lastSet = [k \in Keys |-> NoSet]
    /\ snap = [t \in Tasks |-> {}]
    /\ ran = [k \in Keys |-> {0}]
    /\ stale = [k \in Keys |-> {}]
    /\ heap = [ref \in Values |-> 0]
    /\ held = {}

\* a task is created to make a cache call (asyncio.gather): the call is
\* scheduled and runs later
Call(t, op, key, value, ttl) ==
    /\ cache_pc[t] = NoOp
    /\ ncalls < MaxCacheOps
    /\ ncalls' = ncalls + 1
    /\ cache_pc' = [cache_pc EXCEPT ![t] =
          [op |-> op, key |-> key, value |-> value, ttl |-> ttl]]
    /\ cache_ret' = NoRet
    /\ UNCHANGED <<now, cache, stats, gets, lastSet, refVars, cbVars,
                   rlVars, tm, moreVars>>

\* the keys a scheduled call writes
Written(call) ==
    IF call.op \in {"set", "delete"} THEN {call.key}
    ELSE IF call.op = "clear" THEN Keys
    ELSE IF call.op = "invalidate"
    THEN {k \in Keys : StartsWith(k, call.key)}
    ELSE {}

\* what a call does when it runs: it takes self._lock, which is free (no
\* holder ever suspends), and runs to its return without suspending
Apply(t, call) ==
    LET res == CASE call.op = "get" -> GetOp(cache, stats, call.key, now)
                 [] call.op = "set" ->
                        SetOp(cache, stats, call.key, call.value,
                              call.ttl, now)
                 [] call.op = "delete" -> DeleteOp(cache, stats, call.key)
                 [] call.op = "clear" -> ClearOp(cache, stats)
                 [] call.op = "invalidate" ->
                        InvalidateOp(cache, stats, call.key)
                 [] call.op = "exists" ->
                        ExistsOp(cache, stats, call.key, now)
                 [] call.op = "keys" -> KeysOp(cache, stats, call.key)
                 [] call.op = "stats" -> StatsOp(cache, stats)
    IN  /\ cache' = res.cache
        /\ stats' = res.stats
        /\ cache_ret' = [op |-> call.op, key |-> call.key,
                         ret |-> res.ret, task |-> t]
        /\ gets' = IF call.op = "get" THEN gets + 1 ELSE gets
        /\ lastSet' = [k \in Keys |->
              IF k \notin Written(call) THEN lastSet[k]
              ELSE IF call.op = "set"
              THEN [value |-> call.value, at |-> now,
                    ttl |-> EffectiveTtl(call.ttl)]
              ELSE NoSet]

\* the scheduled call of task t runs
Run(t) ==
    /\ cache_pc[t] # NoOp
    /\ Apply(t, cache_pc[t])
    /\ cache_pc' = [cache_pc EXCEPT ![t] = NoOp]
    /\ UNCHANGED <<now, ncalls, refVars, cbVars, rlVars, tm, moreVars>>

\* "await cache.<op>(...)" in the running task: the call runs at once
CacheOp(t, op, key, value, ttl) ==
    /\ ncalls < MaxCacheOps
    /\ ncalls' = ncalls + 1
    /\ Apply(t, [op |-> op, key |-> key, value |-> value, ttl |-> ttl])
    /\ UNCHANGED <<now, cache_pc, linVars, refVars, cbVars, rlVars,
                   tm, moreVars>>

\* a get, set or delete call that carries the number of the call (so that
\* every set stores a value of its own) and records which writes of the
\* key had run, or were known to be overwritten, when the call was made
OrderedCall(t, op, key) ==
    /\ Call(t, op, key, ncalls + 1, <<>>)
    /\ snap' = [snap EXCEPT ![t] =
                   IF op = "get" THEN stale[key] ELSE ran[key]]
    /\ UNCHANGED <<ran, stale>>

\* the name of the write a call makes: the value of a set, minus the
\* number of the call for a delete (0 names the initial, empty cache)
WriteId(call) == IF call.op = "set" THEN call.value ELSE 0 - call.value

\* a run that records the write it makes
OrderedRun(t) ==
    /\ Run(t)
    /\ LET call == cache_pc[t]
       IN  /\ ran' = [k \in Keys |->
                  IF k \in Written(call) THEN ran[k] \cup {WriteId(call)}
                  ELSE ran[k]]
           /\ stale' = [k \in Keys |->
                  IF k \in Written(call) THEN stale[k] \cup snap[t]
                  ELSE stale[k]]
    /\ UNCHANGED snap

\* one cycle of _cleanup_loop: the sleep is over and _cleanup_expired runs
SweepCycle ==
    /\ \E k \in DOMAIN cache : IsExpired(cache[k], now)
    /\ LET res == CleanupExpired(cache, stats, now)
       IN  /\ cache' = res.cache
           /\ stats' = res.stats
    /\ cache_ret' = NoRet
    /\ UNCHANGED <<now, cache_pc, ncalls, gets, lastSet, linVars, refVars,
                   cbVars, rlVars, tm, moreVars>>

\* a task is created to make a set, delete, get or invalidate_pattern call on
\* the keys of the pattern scenario; the call runs later
PatternCall(t, op, key) ==
    /\ cache_pc[t] = NoOp
    /\ ncalls < MaxPatternOps
    /\ ncalls' = ncalls + 1
    /\ cache_pc' = [cache_pc EXCEPT ![t] =
          [op |-> op, key |-> key, value |-> 1, ttl |-> <<>>]]
    /\ cache_ret' = NoRet
    /\ UNCHANGED <<now, cache, stats, gets, lastSet, linVars, refVars,
                   cbVars, rlVars, tm, moreVars>>

\* the scheduled call of task t runs (pattern scenario)
PatternRun(t) == Run(t) /\ UNCHANGED linVars

\* "await cache.set(key, obj)": the entry stores the object the caller
\* passed (line 208, value=value), which the caller still holds
RefSet(t, key, ref) ==
    /\ ncalls < MaxCacheOps
    /\ ncalls' = ncalls + 1
    /\ Apply(t, [op |-> "set", key |-> key, value |-> ref, ttl |-> <<>>])
    /\ held' = held \cup {ref}
    /\ UNCHANGED <<now, cache_pc, linVars, heap, cbVars, rlVars,
                   tm, moreVars>>

\* "obj = await cache.get(key)": the caller receives entry.value itself
\* (line 185) and holds it
RefGet(t, key) ==
    /\ ncalls < MaxCacheOps
    /\ ncalls' = ncalls + 1
    /\ Apply(t, [op |-> "get", key |-> key, value |-> Absent, ttl |-> <<>>])
    /\ held' = held \cup ({GetOp(cache, stats, key, now).ret} \ {Absent})
    /\ UNCHANGED <<now, cache_pc, linVars, heap, cbVars, rlVars,
                   tm, moreVars>>

\* "snapshot = await cache.get_stats()": the caller receives a new dict
RefStats(t) ==
    /\ ncalls < MaxCacheOps
    /\ ncalls' = ncalls + 1
    /\ Apply(t, [op |-> "stats", key |-> <<>>, value |-> Absent,
                 ttl |-> <<>>])
    /\ UNCHANGED <<now, cache_pc, linVars, refVars, cbVars, rlVars,
                   tm, moreVars>>

\* the caller mutates in place an object it holds (obj["name"] = ...)
CallerMutates(ref) ==
    /\ ref \in held
    /\ heap[ref] < MaxMutations
    /\ heap' = [heap EXCEPT ![ref] = @ + 1]
    /\ UNCHANGED <<now, cache, stats, cache_pc, cache_ret, ncalls, gets,
                   lastSet, linVars, held, cbVars, rlVars,
                   tm, moreVars>>

\* the caller mutates the stats snapshot it was given (snapshot["hits"] = 0)
CallerMutatesSnapshot ==
    /\ cache_ret.op = "stats"
    /\ cache_ret.ret.hits # 0
    /\ cache_ret' = [cache_ret EXCEPT !.ret.hits = 0]
    /\ UNCHANGED <<now, cache, stats, cache_pc, ncalls, gets, lastSet,
                   linVars, refVars, cbVars, rlVars, tm,
                   moreVars>>

\* ----------------------------------------------------- CacheService: claims
\* the value stored under key, Absent if there is no entry
Stored(key) == IF key \in DOMAIN cache THEN cache[key].value ELSE Absent

\* C9: after set(k, v, ttl) with ttl > 0 and no later set, delete, clear or
\* invalidation of k, get(k) returns v at every time now <= expires_at and
\* None at every later time, whether or not a sweep has run in between.
C9_ValueUntilExpiry ==
    (cache_ret.op = "get" /\ lastSet[cache_ret.key] # NoSet
        /\ lastSet[cache_ret.key].ttl > 0)
    => LET last == lastSet[cache_ret.key]
       IN  cache_ret.ret = IF now <= last.at + last.ttl
                           THEN last.value ELSE Absent

C9_Witness ==
    /\ cache_ret.op = "get"
    /\ cache_ret.ret = Absent
    /\ lastSet[cache_ret.key] # NoSet
    /\ lastSet[cache_ret.key].ttl > 0
    /\ now > lastSet[cache_ret.key].at + lastSet[cache_ret.key].ttl

\* value v (None for Absent) is what one of the writes in the set stored
ReadFrom(v, writes) ==
    IF v = Absent THEN \E w \in writes : w <= 0 ELSE v \in writes

\* C10: under every interleaving of concurrent get/set/delete calls, a get
\* returns what a write of that key that has run stored (None for a delete
\* or for the empty cache), never what had been overwritten by a write that
\* returned before the get was called; and when no call is pending every
\* key holds the value of the last set that ran on it, or nothing if a
\* delete ran after it.
C10_Linearizable ==
    /\ cache_ret.op = "get" =>
          ReadFrom(cache_ret.ret,
                   ran[cache_ret.key] \ snap[cache_ret.task])
    /\ (\A t \in Tasks : cache_pc[t] = NoOp) =>
          \A k \in Keys :
              /\ Stored(k) = lastSet[k].value
              /\ ReadFrom(Stored(k), ran[k] \ stale[k])

C10_Witness ==
    /\ cache_ret.op = "get"
    /\ cache_ret.ret # Absent
    /\ \E v \in snap[cache_ret.task] : v > 0
    /\ cache_ret.ret \notin snap[cache_ret.task]

C12_GetCounters ==
    /\ [](stats.hits + stats.misses = gets)
    /\ [][ \A t \in Tasks, key \in Keys :
             (cache_ret'.op = "get" /\ CacheOp(t, "get", key, Absent, <<>>))
             => IF key \notin DOMAIN cache
               THEN /\ cache' = cache
                    /\ stats' = [stats EXCEPT !.misses = @ + 1]
               ELSE IF now > cache[key].expires_at
               THEN /\ cache' = Without(cache, key)
                    /\ stats' = [stats EXCEPT !.misses = @ + 1,
                                              !.evictions = @ + 1]
               ELSE /\ cache' = [cache EXCEPT ![key].hits = @ + 1]
                    /\ stats' = [stats EXCEPT !.hits = @ + 1] ]_vars

C12_Witness ==
    /\ cache_ret.op = "get"
    /\ cache_ret.ret = Absent
    /\ gets = 2
    /\ stats.hits = 1
    /\ stats.misses = 1
    /\ stats.evictions = 1

\* C13: exists(key) returns true iff an entry for key is stored and not
\* expired, and changes nothing: the entries, their hit counts and the
\* counters are after the call what they were before it.
C13_ExistsPure ==
    [][ \A t \in Tasks, key \in Keys :
          (cache_ret'.op = "exists"
              /\ CacheOp(t, "exists", key, Absent, <<>>))
          =>
            /\ cache' = cache
            /\ stats' = stats
            /\ cache_ret'.ret =
                  (key \in DOMAIN cache /\ now <= cache[key].expires_at) ]_vars

C13_Witness ==
    /\ cache_ret.op = "exists"
    /\ cache_ret.ret = TRUE
    /\ cache[cache_ret.key].hits = 0
    /\ stats.hits = 0
    /\ \E k \in DOMAIN cache : IsExpired(cache[k], now)

\* C14: get_keys_by_pattern(prefix) returns exactly the stored keys that
\* begin with prefix and whose entries are not expired at the time of the
\* call.
C14_KeysNotExpired ==
    cache_ret.op = "keys" =>
        cache_ret.ret = {k \in DOMAIN cache :
                            /\ StartsWith(k, cache_ret.key)
                            /\ ~IsExpired(cache[k], now)}

\* what get(key) hands out for a stored key: the content of the object
Content(key) == heap[cache[key].value]

\* C15: data handed out by the cache is independent of its internal state:
\* a mutation the caller applies to an object returned by get or passed to
\* set, or to a snapshot returned by get_stats, does not change what later
\* get and get_stats calls return.
C15_IndependentCopies ==
    [][ ((\E ref \in Values : CallerMutates(ref)) \/ CallerMutatesSnapshot)
        => /\ \A k \in DOMAIN cache : Content(k)' = Content(k)
           /\ StatsOp(cache', stats').ret = StatsOp(cache, stats).ret ]_vars

\* ------------------------------------------- clock and next-state relations
\* time passes
Tick ==
    /\ now < MaxTime
    /\ now' = now + 1
    /\ rl_resp' = NoResp
    /\ admitted' = InWindow(admitted, now + 1)
    /\ cache_ret' = NoRet
    /\ UNCHANGED <<cbVars, rate_limit_enabled, client_requests, inflight,
                   path_of, retry, cache, stats, cache_pc, ncalls, gets,
                   lastSet, linVars, refVars, tm,
                   moreVars>>

CBNext ==
    \/ Tick
    \/ \E c \in Callers : AEnter(c)
    \/ \E c \in Callers : CBRejected(c)
    \/ \E c \in Callers : ExitSuccess(c)
    \/ \E c \in Callers, exc \in ExcTypes : ExitRaise(c, exc)

RLNext ==
    \/ Tick
    \/ \E client \in ClientHosts \cup {NoClient}, path \in Paths :
          Dispatch(client, path)
    \/ \E req \in BagToSet(inflight) : CallNextReturns(req)

CacheNext ==
    \/ Tick
    \/ \E t \in Tasks, key \in Keys :
          \/ CacheOp(t, "get", key, Absent, <<>>)
          \/ CacheOp(t, "delete", key, Absent, <<>>)
          \/ \E value \in Values, ttl \in TtlArgs :
                CacheOp(t, "set", key, value, ttl)
    \/ \E t \in Tasks : CacheOp(t, "clear", <<>>, Absent, <<>>)
    \/ \E t \in Tasks, pattern \in Patterns :
          CacheOp(t, "invalidate", pattern, Absent, <<>>)
    \/ SweepCycle

\* exists and get_keys_by_pattern calls among set and get calls, clock ticks
\* and background sweeps
CacheNextReads ==
    \/ Tick
    \/ \E t \in Tasks, key \in Keys :
          \/ CacheOp(t, "get", key, Absent, <<>>)
          \/ CacheOp(t, "exists", key, Absent, <<>>)
          \/ \E ttl \in TtlArgs : CacheOp(t, "set", key, 1, ttl)
    \/ \E t \in Tasks, pattern \in Patterns :
          CacheOp(t, "keys", pattern, Absent, <<>>)
    \/ SweepCycle

\* get/set/delete calls made by concurrent tasks, with the default ttl
CacheNextGetSetDelete ==
    \/ \E t \in Tasks, key \in Keys, op \in {"get", "set", "delete"} :
          OrderedCall(t, op, key)
    \/ \E t \in Tasks : OrderedRun(t)

\* set, delete, get and invalidate_pattern calls made by concurrent tasks
CacheNextPattern ==
    \/ \E t \in Tasks, key \in PatternKeys, op \in {"set", "delete", "get"} :
          PatternCall(t, op, key)
    \/ \E t \in Tasks, pattern \in Patterns :
          PatternCall(t, "invalidate", pattern)
    \/ \E t \in Tasks : PatternRun(t)

\* callers that keep and mutate the objects they pass to and get from the
\* cache
CacheNextRefs ==
    \/ \E t \in Tasks, key \in Keys, ref \in Values : RefSet(t, key, ref)
    \/ \E t \in Tasks, key \in Keys : RefGet(t, key)
    \/ \E t \in Tasks : RefStats(t)
    \/ \E t \in Tasks, key \in Keys :
          CacheOp(t, "delete", key, Absent, <<>>)
    \/ \E ref \in Values : CallerMutates(ref)
    \/ CallerMutatesSnapshot

\* rejections at every sub-second clock reading
RetryAfterNext ==
    \E oldest_request \in Ticks, window_seconds \in Windows, t \in Ticks :
        Reject(oldest_request, window_seconds, t)

\* time passes while no timer of wait_for is due
TMTick ==
    /\ \A r \in TMRequests : ~(tm[r].pc = "waiting" /\ now >= Deadline(r))
    /\ Tick

TMNext ==
    \/ TMTick
    \/ \E r \in TMRequests : TMDispatch(r)
    \/ \E r \in TMRequests : AppStep(r)
    \/ \E r \in TMRequests : AppResponds(r)
    \/ \E r \in TMRequests : AppRaises(r)
    \/ \E r \in TMRequests : WaitForReturns(r)
    \/ \E r \in TMRequests : WaitForTimeout(r)

\* every client sends all its requests to one endpoint class
RLNextOneClass ==
    \/ Tick
    \/ \E client \in ClientHosts \cup {NoClient} :
          Dispatch(client, path_of[ClientIp(client)])
    \/ \E req \in BagToSet(inflight) : CallNextReturns(req)

\* ---------------------------------------------- RateLimitMiddleware: claims
\* the quota (max_requests) of the class of a history key
QuotaOf(key) == ClassLimit(key[2])[1]

\* every (client, class) has at most its quota of admissions in the window
WithinQuota ==
    \A key \in DOMAIN admitted : Len(admitted[key]) <= QuotaOf(key)

\* a 429 is returned only to a (client, class) whose quota is used up
RejectedOnlyWhenFull ==
    rl_resp.status = 429 =>
        Len(admitted[<<rl_resp.client_ip, rl_resp.cls>>])
            >= QuotaOf(<<rl_resp.client_ip, rl_resp.cls>>)

\* C1: for the requests of one client to one endpoint class, with rate
\* limiting enabled and under every interleaving of the requests: the
\* admissions inside any span of window_seconds never exceed max_requests;
\* a check that finds max_requests or more timestamps in the window answers
\* 429 and does not call downstream, and a check that finds fewer admits.
C1_QuotaNeverExceeded ==
    /\ [](rate_limit_enabled => (WithinQuota /\ RejectedOnlyWhenFull))
    /\ [][ \A client \in ClientHosts \cup {NoClient} :
             LET path == path_of[ClientIp(client)]
                 key == <<ClientIp(client), EndpointClass(path)>>
             IN  ( /\ rate_limit_enabled
                   /\ Len(admitted[key]) >= QuotaOf(key)
                   /\ Dispatch(client, path) )
                 => ( /\ rl_resp'.status = 429
                      /\ inflight' = inflight
                      /\ admitted' = admitted ) ]_vars

C1_Witness ==
    /\ rate_limit_enabled
    /\ rl_resp.status = 429
    /\ rl_resp.cls = "general"
    /\ Len(admitted[<<rl_resp.client_ip, "general">>]) = RATE_LIMIT_REQUESTS
    /\ BagCardinality(inflight) > 0

\* the time, in ticks, until the oldest timestamp of a rejection leaves the
\* window
TicksLeft(r) == r.oldest_request + r.window_seconds * Resolution - r.now

\* C16: a rejected check reports
\* retry_after = ceil(oldest + window_seconds - now), and this is > 0, also
\* when oldest + window_seconds - now is a whole number of seconds.
C16_RetryAfterCeil ==
    retry # NoRetry =>
        /\ retry.retry_after =
              (TicksLeft(retry) + Resolution - 1) \div Resolution
        /\ retry.retry_after > 0

\* C16 as amended: retry_after is the whole part of
\* oldest + window_seconds - now, plus 1: it is > 0, it is the least whole
\* number of seconds after which the oldest timestamp is purged, it equals
\* the ceiling except when oldest + window_seconds - now is a whole number
\* of seconds (then it is one more), and on whole-second clock readings it
\* is what the middleware model answers.
C16_RetryAfterFloorPlusOne ==
    retry # NoRetry =>
        LET left == TicksLeft(retry)
            ceiling == (left + Resolution - 1) \div Resolution
            ra == retry.retry_after
        IN  /\ ra = (left \div Resolution) + 1
            /\ ra > 0
            /\ retry.oldest_request
                  < (retry.now + ra * Resolution)
                        - retry.window_seconds * Resolution
            /\ ~(retry.oldest_request
                  < (retry.now + (ra - 1) * Resolution)
                        - retry.window_seconds * Resolution)
            /\ ra = IF left % Resolution = 0 THEN ceiling + 1 ELSE ceiling
            /\ (retry.oldest_request % Resolution = 0
                    /\ retry.now % Resolution = 0)
               => ra = RetryAfter(retry.oldest_request \div Resolution,
                                  retry.window_seconds,
                                  retry.now \div Resolution)

C16_Witness ==
    /\ retry # NoRetry
    /\ TicksLeft(retry) = 0
    /\ retry.retry_after = 1

\* C17: every response produced while rate limiting is enabled, admitted or
\* rejected (429), carries limit, remaining and reset
\* (X-RateLimit-Limit, -Remaining, -Reset), with
\* remaining = max(0, max_requests - current count).
C17_HeadersOnEveryResponse ==
    (rate_limit_enabled /\ rl_resp # NoResp) =>
        /\ {"limit", "remaining", "reset"} \subseteq DOMAIN rl_resp
        /\ \E ip \in DOMAIN client_requests :
               rl_resp.remaining =
                   Remaining(rl_resp.limit, client_requests[ip])

\* C18: rejection is temporary: after a request of a client has been
\* rejected, once time has advanced past window_seconds from the client's
\* oldest counted request the next check is admitted; a rejected attempt is
\* not appended to the window.
C18_RejectionTemporary ==
    [][ \A client \in ClientHosts \cup {NoClient}, path \in Paths :
          ( /\ rate_limit_enabled
            /\ rl_resp'.status = 429
            /\ Dispatch(client, path) )
          => LET ip == ClientIp(client)
                 limit == LimitForEndpoint(path)
                 queue == client_requests'[ip]
             IN  /\ ip \in DOMAIN client_requests
                 /\ Len(queue) <= Len(client_requests[ip])
                 /\ \A t \in now..(MaxTime + limit[2] + 1) :
                       t > queue[1] + limit[2] =>
                         ~LimitExceeded(Purge(queue, t - limit[2]),
                                        limit[1]) ]_vars

\* C19: a check for one client never reads or changes another client's
\* window: a request of client a leaves the window and the admissions of
\* every other client b as they were, the window of b holds b's own
\* admissions only, and a request of b is rejected exactly when b's own
\* admissions fill its quota, whatever a has sent.
C19_ClientsIsolated ==
    /\ [](rate_limit_enabled =>
            \A ip \in DOMAIN client_requests :
                LET cls == EndpointClass(path_of[ip])
                IN  SelectSeq(client_requests[ip],
                              LAMBDA ts : ts >= now - ClassLimit(cls)[2])
                        = admitted[<<ip, cls>>])
    /\ [][ \A a \in ClientHosts \cup {NoClient} :
             LET path == path_of[ClientIp(a)]
                 key == <<ClientIp(a), EndpointClass(path)>>
             IN  (rate_limit_enabled /\ Dispatch(a, path)) =>
                   /\ rl_resp'.status = 429
                         <=> Len(admitted[key]) >= QuotaOf(key)
                   /\ \A b \in (ClientHosts \cup {NoClient}) \ {a} :
                         LET ipb == ClientIp(b)
                         IN  /\ ipb \in DOMAIN client_requests'
                                   <=> ipb \in DOMAIN client_requests
                             /\ ipb \in DOMAIN client_requests =>
                                   client_requests'[ipb]
                                       = client_requests[ipb]
                             /\ \A cls \in EndpointClasses :
                                   admitted'[<<ipb, cls>>]
                                       = admitted[<<ipb, cls>>] ]_vars

C19_Witness ==
    /\ rate_limit_enabled
    /\ \A ip \in ClientIps : EndpointClass(path_of[ip]) = "general"
    /\ \A ip \in ClientIps :
          Len(admitted[<<ip, "general">>]) = RATE_LIMIT_REQUESTS
    /\ rl_resp.status = 429

\* C2: windows are kept per (client, endpoint class): whatever mix of
\* classes a client uses, the admissions of each class inside that class's
\* window never exceed that class's quota, and a request is answered 429
\* only when the quota of its own class is used up (general traffic does
\* not consume the auth or upload quota).
C2_WindowPerClass ==
    rate_limit_enabled =>
        /\ \A ip \in ClientIps, cls \in EndpointClasses :
               Len(admitted[<<ip, cls>>]) <= ClassLimit(cls)[1]
        /\ \A ip \in ClientIps, cls \in EndpointClasses :
               (rl_resp.status = 429 /\ rl_resp.client_ip = ip
                    /\ rl_resp.cls = cls)
               => Len(admitted[<<ip, cls>>]) >= ClassLimit(cls)[1]

\* -------------------------------------- CircuitBreaker: state invariants
\* the state part of C29
BreakerStateOK ==
    /\ state \in {"CLOSED", "OPEN", "HALF_OPEN"}
    /\ failure_count >= 0
    /\ state \in {"OPEN", "HALF_OPEN"} =>
          /\ failure_count >= failure_threshold
          /\ last_failure_time # None

\* C29: in every reachable state of a breaker with failure_threshold >= 1,
\* under concurrent guarded calls: state is CLOSED, OPEN or HALF_OPEN,
\* failure_count >= 0, and OPEN or HALF_OPEN implies failure_count >=
\* failure_threshold and a last_failure_time that is not None; HALF_OPEN is
\* entered only from OPEN and CLOSED only from HALF_OPEN.
C29_BreakerStates ==
    /\ []BreakerStateOK
    /\ [][ /\ (state' = "HALF_OPEN" /\ state # "HALF_OPEN")
                 => state = "OPEN"
           /\ (state' = "CLOSED" /\ state # "CLOSED")
                 => state = "HALF_OPEN"
       ]_vars

C29_Witness ==
    /\ state = "CLOSED"
    /\ failure_count = 0
    /\ last_failure_time # None
    /\ \E c \in Callers : cb_pc[c] = "running"

\* -------------------------------------------------------- MetricsMiddleware
\* request.url.path and response.status_code of the requests
MetricPaths == { <<"api", "v1", "users">>, <<"health">> }
StatusCodes == {200, 404, 500}

RECURSIVE Gcd(_, _)
Gcd(a, b) == IF b = 0 THEN a ELSE Gcd(b, a % b)

\* a float as an exact fraction in lowest terms (rounding is not modelled)
Fraction(num, den) ==
    LET g == Gcd(num, den)
    IN  IF g = 0 THEN [num |-> 0, den |-> 1]
        ELSE [num |-> num \div g, den |-> den \div g]

RECURSIVE SumSeq(_)
SumSeq(seq) == IF seq = <<>> THEN 0 ELSE Head(seq) + SumSeq(Tail(seq))

RECURSIVE SumOver(_, _)
SumOver(f, dom) ==
    IF dom = {} THEN 0
    ELSE LET x == CHOOSE x \in dom : TRUE
         IN  f[x] + SumOver(f, dom \ {x})

\* __init__, lines 335-342
MetricsInit ==
    /\ metrics = [total_requests |-> 0, total_errors |-> 0,
                  response_times |-> <<>>,
                  status_codes |-> [c \in {} |-> 0],
                  endpoints |-> [p \in {} |-> 0]]
    /\ m_inflight = EmptyBag
    /\ m_durations = <<>>

DequeAppend_unbounded(queue, x) == Append(queue, x)

\* deque(maxlen=1000).append: the oldest entry is dropped when full
DequeAppend(queue, x) ==
    IF Len(queue) >= ResponseTimesMaxlen
    THEN Append(Tail(queue), x)
    ELSE Append(queue, x)

\* lines 368-369: status_codes.get(status_code, 0) + 1
CountOf(counts, code) == IF code \in DOMAIN counts THEN counts[code] ELSE 0

\* lines 373-385: the endpoint's count and running average after a
\* request of the given duration
EndpointAfter(endpoints, path, duration) ==
    LET endpoint_data == IF path \in DOMAIN endpoints THEN endpoints[path]
                         ELSE [count |-> 0,
                               avg_response_time |-> Fraction(0, 1)]
        n == endpoint_data.count + 1
        avg == endpoint_data.avg_response_time
    IN  [count |-> n,
         avg_response_time |->
             Fraction(avg.num * (n - 1) + duration * avg.den, avg.den * n)]

\* dispatch, lines 357-365: the request is counted and call_next awaited
MetricsDispatch(path) ==
    /\ metrics.total_requests < MaxMetricRequests
    /\ BagCardinality(m_inflight) < NumRequests
    /\ metrics' = [metrics EXCEPT !.total_requests = @ + 1]
    /\ m_inflight' = m_inflight (+)
                         SetToBag({[start_time |-> now, path |-> path]})
    /\ UNCHANGED <<now, m_durations, cbVars, rlVars, cacheVars, tm, wrapVars,
                   retryVars, gatherVars, cleanupVars, crudVars>>

\* dispatch, lines 365-398: call_next has returned a response
MetricsReturn(req, status_code) ==
    /\ BagIn(req, m_inflight)
    /\ m_inflight' = m_inflight (-) SetToBag({req})
    /\ LET duration == now - req.start_time
       IN  /\ metrics' =
                 [metrics EXCEPT
                    !.response_times = DequeAppend(@, duration),
                    !.status_codes =
                        (status_code :> (CountOf(@, status_code) + 1)) @@ @,
                    !.endpoints =
                        (req.path :> EndpointAfter(@, req.path, duration))
                            @@ @,
                    !.total_errors =
                        IF status_code >= 400 THEN @ + 1 ELSE @]
           /\ m_durations' = Append(m_durations, duration)
    /\ UNCHANGED <<now, cbVars, rlVars, cacheVars, tm, wrapVars, retryVars,
                   gatherVars, cleanupVars, crudVars>>

\* dispatch, lines 400-403: call_next has raised; "except Exception" counts
\* an error and re-raises, a BaseException passes uncounted
MetricsRaise(req, exc) ==
    /\ BagIn(req, m_inflight)
    /\ m_inflight' = m_inflight (-) SetToBag({req})
    /\ metrics' = IF IsSubclass(exc, "Exception")
                  THEN [metrics EXCEPT !.total_errors = @ + 1]
                  ELSE metrics
    /\ UNCHANGED <<now, m_durations, cbVars, rlVars, cacheVars, tm, wrapVars,
                   retryVars, gatherVars, cleanupVars, crudVars>>

\* time passes
MetricsTick == Tick

\* get_metrics, lines 414-440 (top_endpoints as the set of its rows)
GetMetrics ==
    LET response_times == metrics.response_times
    IN  [total_requests |-> metrics.total_requests,
         total_errors |-> metrics.total_errors,
         error_rate |->
             IF metrics.total_requests > 0
             THEN Fraction(metrics.total_errors, metrics.total_requests)
             ELSE Fraction(0, 1),
         avg_response_time |->
             IF response_times # <<>>
             THEN Fraction(SumSeq(response_times), Len(response_times))
             ELSE Fraction(0, 1),
         status_codes |-> metrics.status_codes,
         top_endpoints |->
             {[path |-> p, count |-> metrics.endpoints[p].count,
               avg_response_time |->
                   metrics.endpoints[p].avg_response_time] :
                 p \in DOMAIN metrics.endpoints}]

MetricsNext ==
    \/ MetricsTick
    \/ \E path \in MetricPaths : MetricsDispatch(path)
    \/ \E req \in BagToSet(m_inflight), status_code \in StatusCodes :
          MetricsReturn(req, status_code)
    \/ \E req \in BagToSet(m_inflight), exc \in ExcTypes :
          MetricsRaise(req, exc)

\* ------------------------------------------------ MetricsMiddleware: claims
\* the sum of the counts of the status codes that satisfy a test
ErrorCodes == {c \in DOMAIN metrics.status_codes : c >= 400}

\* C21: each request is counted once: total_requests + 1 per request and
\* total_errors + 1 iff it ended with status_code >= 400; so
\* total_errors <= total_requests, and whenever no request is in flight
\* total_requests = sum of status_codes = sum of the endpoint counts and
\* total_errors = sum of status_codes over codes >= 400, also after
\* requests whose downstream handler raised.
C21_CountedOnce ==
    /\ metrics.total_errors <= metrics.total_requests
    /\ m_inflight = EmptyBag =>
          /\ metrics.total_requests =
                SumOver(metrics.status_codes, DOMAIN metrics.status_codes)
          /\ metrics.total_requests =
                SumOver([p \in DOMAIN metrics.endpoints |->
                            metrics.endpoints[p].count],
                        DOMAIN metrics.endpoints)
          /\ metrics.total_errors =
                SumOver(metrics.status_codes, ErrorCodes)

\* the last n elements of a sequence
LastN(seq, n) ==
    IF Len(seq) <= n THEN seq ELSE SubSeq(seq, Len(seq) - n + 1, Len(seq))

\* C22: the recent-latency buffer never holds more than its capacity: it
\* holds the most recent durations recorded, in order, the oldest dropped
\* when full; the snapshot's avg_response_time is the arithmetic mean of
\* the durations in the buffer, 0 if it is empty.
C22_BoundedBufferMean ==
    LET buffer == metrics.response_times
        avg == GetMetrics.avg_response_time
    IN  /\ Len(buffer) <= ResponseTimesMaxlen
        /\ buffer = LastN(m_durations, ResponseTimesMaxlen)
        /\ avg.num * Len(LastN(m_durations, ResponseTimesMaxlen))
              = SumSeq(LastN(m_durations, ResponseTimesMaxlen)) * avg.den
        /\ m_durations = <<>> => avg.num = 0

C22_Witness ==
    /\ Len(m_durations) > ResponseTimesMaxlen
    /\ Len(metrics.response_times) = ResponseTimesMaxlen
    /\ m_durations[1] # m_durations[Len(m_durations)]
    /\ GetMetrics.avg_response_time.den > 1

\* ------------------------------------------- CacheService: sweep and get
\* the keys a step removes, and the stored entries past their expiry time
Removed == DOMAIN cache \ DOMAIN cache'
ExpiredNow == {k \in DOMAIN cache : now > cache[k].expires_at}

\* C24: a sweep cycle removes exactly the entries with now > expires_at,
\* leaves the others as they are and adds the number removed to evictions;
\* a get removes at most its own key, only if expired, and counts it once;
\* no other step changes evictions: each expired entry removed by the
\* sweep or by get is counted exactly once.
C24_EvictionsCounted ==
    [][ /\ (ncalls' = ncalls /\ now' = now) =>
             /\ Removed = ExpiredNow
             /\ \A k \in DOMAIN cache' : cache'[k] = cache[k]
             /\ stats' = [stats EXCEPT
                            !.evictions = @ + Cardinality(ExpiredNow)]
        /\ (ncalls' # ncalls /\ cache_ret'.op = "get") =>
             /\ Removed = ExpiredNow \cap {cache_ret'.key}
             /\ stats'.evictions = stats.evictions + Cardinality(Removed)
        /\ (ncalls' # ncalls /\ cache_ret'.op # "get") =>
             stats'.evictions = stats.evictions
        /\ now' # now => stats' = stats /\ cache' = cache
      ]_vars

C24_Witness ==
    /\ stats.evictions = 2
    /\ stats.sets = 2
    /\ gets = 0
    /\ now = 2
    /\ cache = [k \in {} |-> Absent]

\* ------------------------------------------------------------- cache_result
\* @cache_result(ttl=cache_result_ttl, key_prefix="") on "func"
key_prefix == ""
func_name == "func"

\* argument values of the calls: Python lists and tuples of integers
ArgValues == { [type |-> "list", items |-> <<1, 2>>],
               [type |-> "tuple", items |-> <<1, 2>>],
               [type |-> "list", items |-> <<2, 1>>] }

\* what the wrapped function can return: None or an integer
FuncResults == {Absent} \cup Values

\* json.dumps of a list or a tuple: a JSON array of the items either way
JsonDumps(value) == <<"[">> \o value.items \o <<"]">>

\* generate_cache_key(arg): md5 of json.dumps({"args": (arg,), "kwargs": {}})
\* (md5 as an injective function of the text)
generate_cache_key(arg) == <<"args", "[">> \o JsonDumps(arg) \o <<"]">>

\* wrapper, line 378
CacheKey(arg) == <<key_prefix, func_name, generate_cache_key(arg)>>

WrapperIdle == [pc |-> "idle"]

WrapperInit ==
    /\ w_pc = [t \in Tasks |-> WrapperIdle]
    /\ w_done = {}

\* a completed call, as the history keeps it
Completed(arg, started, invoked, result) ==
    [id |-> Cardinality(w_done) + 1, arg |-> arg, started |-> started,
     ended |-> now, invoked |-> invoked, result |-> result]

\* wrapper, lines 378-386: the key is computed and the cache read; a
\* cached value that is not None is returned, otherwise func is awaited
WrapperCall(t, arg) ==
    /\ w_pc[t].pc = "idle"
    /\ Cardinality(w_done) + Cardinality({u \in Tasks : w_pc[u].pc # "idle"})
         < MaxWrapperCalls
    /\ LET r == GetOp(cache, stats, CacheKey(arg), now)
           cached_value == r.ret
       IN  /\ cache' = r.cache
           /\ stats' = r.stats
           /\ gets' = gets + 1
           /\ IF cached_value # Absent
              THEN /\ w_done' = w_done \cup
                        {Completed(arg, now, FALSE, cached_value)}
                   /\ UNCHANGED w_pc
              ELSE /\ w_pc' = [w_pc EXCEPT ![t] =
                        [pc |-> "func", arg |-> arg, started |-> now]]
                   /\ UNCHANGED w_done
    /\ UNCHANGED <<now, cache_pc, cache_ret, ncalls, lastSet, linVars,
                   refVars, cbVars, rlVars, tm, metricVars, retryVars,
                   gatherVars, cleanupVars, crudVars>>

\* wrapper, lines 388-393: func has returned; its result is stored with
\* the decorator's ttl and returned
FuncReturns(t, result) ==
    /\ w_pc[t].pc = "func"
    /\ LET r == SetOp(cache, stats, CacheKey(w_pc[t].arg), result,
                      <<cache_result_ttl>>, now)
       IN  /\ cache' = r.cache
           /\ stats' = r.stats
    /\ w_done' = w_done \cup
          {Completed(w_pc[t].arg, w_pc[t].started, TRUE, result)}
    /\ w_pc' = [w_pc EXCEPT ![t] = WrapperIdle]
    /\ UNCHANGED <<now, cache_pc, cache_ret, ncalls, gets, lastSet, linVars,
                   refVars, cbVars, rlVars, tm, metricVars, retryVars,
                   gatherVars, cleanupVars, crudVars>>

WrapperTick == Tick

WrapperNext ==
    \/ WrapperTick
    \/ \E t \in Tasks, arg \in ArgValues : WrapperCall(t, arg)
    \/ \E t \in Tasks, result \in FuncResults : FuncReturns(t, result)

\* ----------------------------------------------------- cache_result: claims
\* the second call starts within ttl seconds after the first has completed
WithinTtlAfter(first, second) ==
    /\ first.ended <= second.started
    /\ second.started <= first.ended + cache_result_ttl

\* C23: for every value func can return: of two calls with identical
\* arguments where the second starts within ttl seconds after the first,
\* which invoked func, has completed, the second does not invoke func and
\* returns the first call's result; a call that does not invoke func has
\* such a first call, so a call after ttl has elapsed invokes func again
\* and calls with different arguments never share a result.
C23_CachedWithinTtl ==
    /\ \A first, second \in w_done :
          (/\ first.id # second.id
           /\ first.invoked
           /\ first.arg = second.arg
           /\ WithinTtlAfter(first, second))
          => ~second.invoked /\ second.result = first.result
    /\ \A second \in w_done :
          ~second.invoked =>
             \E first \in w_done :
                /\ first.invoked
                /\ first.arg = second.arg
                /\ first.result = second.result
                /\ WithinTtlAfter(first, second)

\* -------------------------------------------------------------- async_retry
\* the "exceptions" tuples the decorator is given
ExceptionTuples == { <<"Exception">>, <<"ConnectionError">>,
                     <<"ValueError", "OSError">> }

\* "except exceptions": the exception is an instance of a class of the tuple
Caught(exc, exceptions) ==
    \E i \in DOMAIN exceptions : IsSubclass(exc, exceptions[i])

AsyncRetryInit ==
    /\ ar = [pc |-> "idle"]
    /\ ar_calls = <<>>

\* wrapper, lines 244-246: a call of the decorated function begins its
\* first attempt
RetryCall(max_attempts, exceptions) ==
    /\ ar.pc = "idle"
    /\ ar' = [pc |-> "func", max_attempts |-> max_attempts,
              exceptions |-> exceptions, attempt |-> 0,
              current_delay |-> delay]
    /\ UNCHANGED <<now, ar_calls, cbVars, rlVars, cacheVars, tm, metricVars,
                   wrapVars, gatherVars, cleanupVars, crudVars>>

\* wrapper, line 248: func returned, the wrapper returns its result
RetryFuncReturns(result) ==
    /\ ar.pc = "func"
    /\ ar_calls' = Append(ar_calls, [ok |-> TRUE, result |-> result])
    /\ ar' = [ar EXCEPT !.pc = "returned"] @@ [result |-> result]
    /\ UNCHANGED <<now, cbVars, rlVars, cacheVars, tm, metricVars,
                   wrapVars, gatherVars, cleanupVars, crudVars>>

LastAttempt_offByOne(attempt, max_attempts) == attempt = max_attempts

\* wrapper, line 250
LastAttempt(attempt, max_attempts) == attempt = max_attempts - 1

\* wrapper, lines 249-257 and the uncaught case: func raised; an exception
\* that is not caught propagates, a caught one of the last attempt is
\* re-raised, otherwise the wrapper goes to sleep
RetryFuncRaises(exc) ==
    /\ ar.pc = "func"
    /\ ar_calls' = Append(ar_calls, [ok |-> FALSE, exc |-> exc])
    /\ ar' = IF ~Caught(exc, ar.exceptions)
                \/ LastAttempt(ar.attempt, ar.max_attempts)
             THEN [ar EXCEPT !.pc = "raised"] @@ [exc |-> exc]
             ELSE [ar EXCEPT !.pc = "sleep"]
    /\ UNCHANGED <<now, cbVars, rlVars, cacheVars, tm, metricVars,
                   wrapVars, gatherVars, cleanupVars, crudVars>>

\* wrapper, lines 268-269 and the loop header, line 246: the sleep is over;
\* the next attempt begins, or range(max_attempts) is exhausted and the
\* wrapper returns None (line 271)
RetrySleepDone ==
    /\ ar.pc = "sleep"
    /\ ar' = IF ar.attempt + 1 < ar.max_attempts
             THEN [ar EXCEPT !.pc = "func", !.attempt = @ + 1,
                             !.current_delay = @ * backoff]
             ELSE [ar EXCEPT !.pc = "returned",
                             !.current_delay = @ * backoff]
                  @@ [result |-> Absent]
    /\ UNCHANGED <<now, ar_calls, cbVars, rlVars, cacheVars, tm, metricVars,
                   wrapVars, gatherVars, cleanupVars, crudVars>>

AsyncRetryNext ==
    \/ \E max_attempts \in 1..MaxAttempts, exceptions \in ExceptionTuples :
          RetryCall(max_attempts, exceptions)
    \/ \E result \in Values : RetryFuncReturns(result)
    \/ \E exc \in ExcTypes : RetryFuncRaises(exc)
    \/ RetrySleepDone

\* ------------------------------------------------------ async_retry: claims
\* every invocation but the last raised an exception of the retryable set
EarlierAllRetryable ==
    \A i \in 1..(Len(ar_calls) - 1) :
        ~ar_calls[i].ok /\ Caught(ar_calls[i].exc, ar.exceptions)

\* the safety part of C25
RetryOutcome ==
    /\ ar.pc # "idle" =>
          /\ Len(ar_calls) <= ar.max_attempts
          /\ EarlierAllRetryable
    /\ ar.pc = "returned" =>
          /\ ar_calls # <<>>
          /\ ar_calls[Len(ar_calls)] = [ok |-> TRUE, result |-> ar.result]
    /\ ar.pc = "raised" =>
          /\ ar_calls # <<>>
          /\ ar_calls[Len(ar_calls)] = [ok |-> FALSE, exc |-> ar.exc]
          /\ Caught(ar.exc, ar.exceptions) =>
                Len(ar_calls) = ar.max_attempts

\* C25: a call of a function wrapped by async_retry(max_attempts = N),
\* N >= 1, terminates after at most N invocations: it returns the result of
\* the first successful attempt; if all N attempts raise a retryable
\* exception, the N-th one is re-raised after exactly N invocations; an
\* exception outside the retryable set propagates at once.
C25_RetryTerminates ==
    /\ []RetryOutcome
    /\ <>(ar.pc \in {"returned", "raised"})

C25_Witness ==
    /\ ar.pc = "raised"
    /\ ar.max_attempts = MaxAttempts
    /\ Len(ar_calls) = MaxAttempts
    /\ Caught(ar.exc, ar.exceptions)
    /\ ar_calls[1].exc # ar.exc

\* -------------------------------------------------- gather_with_concurrency
Coroutines == 1..NumCoroutines

GatherInit ==
    /\ semaphore = [n |-> 0, value |-> 0, waiters |-> <<>>]
    /\ children = [i \in Coroutines |-> [pc |-> "none"]]
    /\ g_pc = [pc |-> "idle"]

\* lines 204-211: the semaphore is made and gather wraps every sem_task in
\* a Task; none of the coroutines given has started
GatherCall(n) ==
    /\ g_pc.pc = "idle"
    /\ semaphore' = [n |-> n, value |-> n, waiters |-> <<>>]
    /\ children' = [i \in Coroutines |-> [pc |-> "created"]]
    /\ g_pc' = [pc |-> "gather"]
    /\ UNCHANGED <<now, cbVars, rlVars, cacheVars, tm, metricVars,
                   wrapVars, retryVars, cleanupVars, crudVars>>

Locked_never(sem) == FALSE

\* asyncio.Semaphore.locked: no permit left, or a task already waits
Locked(sem) == sem.value = 0 \/ sem.waiters # <<>>

\* sem_task, line 207: the tasks start in the order gather created them;
\* "async with semaphore" takes a permit and the coroutine given starts
\* executing, or the task joins the waiters
SemTaskStart(i) ==
    /\ children[i].pc = "created"
    /\ \A j \in Coroutines : j < i => children[j].pc # "created"
    /\ IF Locked(semaphore)
       THEN /\ semaphore' = [semaphore EXCEPT !.waiters = Append(@, i)]
            /\ children' = [children EXCEPT ![i].pc = "acquire"]
       ELSE /\ semaphore' = [semaphore EXCEPT !.value = @ - 1]
            /\ children' = [children EXCEPT ![i].pc = "running"]
    /\ UNCHANGED <<now, g_pc, cbVars, rlVars, cacheVars, tm, metricVars,
                   wrapVars, retryVars, cleanupVars, crudVars>>

\* Semaphore.acquire resumed: the first waiter takes the permit released
WaiterResumes(i) ==
    /\ semaphore.waiters # <<>>
    /\ Head(semaphore.waiters) = i
    /\ semaphore.value > 0
    /\ semaphore' = [semaphore EXCEPT !.value = @ - 1,
                                      !.waiters = Tail(@)]
    /\ children' = [children EXCEPT ![i].pc = "running"]
    /\ UNCHANGED <<now, g_pc, cbVars, rlVars, cacheVars, tm, metricVars,
                   wrapVars, retryVars, cleanupVars, crudVars>>

\* the results of the children in the order gather was given them
GatherResults(ch) == [i \in Coroutines |-> ch[i].result]

\* sem_task, line 208: the coroutine returns; the permit is released and
\* the result kept by the child; gather returns once every child is done
CoroutineReturns(i, result) ==
    /\ children[i].pc = "running"
    /\ semaphore' = [semaphore EXCEPT !.value = @ + 1]
    /\ children' = [children EXCEPT
                      ![i] = [pc |-> "done", result |-> result]]
    /\ g_pc' = IF /\ g_pc.pc = "gather"
                  /\ \A j \in Coroutines : children'[j].pc = "done"
               THEN [pc |-> "returned", ret |-> GatherResults(children')]
               ELSE g_pc
    /\ UNCHANGED <<now, cbVars, rlVars, cacheVars, tm, metricVars,
                   wrapVars, retryVars, cleanupVars, crudVars>>

\* sem_task, line 208: the coroutine raises; the permit is released and
\* gather passes the first exception on to the caller, the other children
\* go on
CoroutineRaises(i, exc) ==
    /\ children[i].pc = "running"
    /\ semaphore' = [semaphore EXCEPT !.value = @ + 1]
    /\ children' = [children EXCEPT ![i] = [pc |-> "failed", exc |-> exc]]
    /\ g_pc' = IF g_pc.pc = "gather" THEN [pc |-> "raised", exc |-> exc]
               ELSE g_pc
    /\ UNCHANGED <<now, cbVars, rlVars, cacheVars, tm, metricVars,
                   wrapVars, retryVars, cleanupVars, crudVars>>

GatherNext ==
    \/ \E n \in Coroutines : GatherCall(n)
    \/ \E i \in Coroutines :
          \/ SemTaskStart(i)
          \/ WaiterResumes(i)
          \/ \E result \in Values : CoroutineReturns(i, result)
          \/ \E exc \in ExcTypes : CoroutineRaises(i, exc)

\* ------------------------------------------ gather_with_concurrency: claims
Executing == {i \in Coroutines : children[i].pc = "running"}
NoneFailed == \A i \in Coroutines : children[i].pc # "failed"

\* the safety part of C26
GatherBounded ==
    /\ g_pc.pc # "idle" => Cardinality(Executing) <= semaphore.n
    /\ g_pc.pc = "returned" =>
          \A i \in Coroutines :
              /\ children[i].pc = "done"
              /\ g_pc.ret[i] = children[i].result

\* C26: gather_with_concurrency(n, tasks), n >= 1, never has more than n of
\* the coroutines given executing at the same time, runs every one of them
\* to completion when none fails, and returns their results in the order
\* of the input whatever the order in which they finish.
C26_GatherWithConcurrency ==
    /\ []GatherBounded
    /\ <>(~NoneFailed \/ g_pc.pc = "returned")

C26_Witness ==
    /\ g_pc.pc = "returned"
    /\ semaphore.n = 2
    /\ g_pc.ret[1] # g_pc.ret[NumCoroutines]

\* ------------------------------------------- CacheService: the cleanup task
NoTask == 0

CleanupInit ==
    /\ cleanup_task = NoTask
    /\ loops = <<>>
    /\ lc_pc = [t \in Tasks |-> [pc |-> "idle"]]
    /\ lc_log = [calls |-> 0, sweeps |-> 0, stopped |-> FALSE,
                 swept_after_stop |-> FALSE]

\* a task that has finished, normally or cancelled
Done(loop) == loop.pc \in {"done", "cancelled"}

\* start_cleanup_task, lines 107-109 (no suspension point)
StartCleanupTask(t) ==
    /\ lc_pc[t].pc = "idle"
    /\ lc_log.calls < MaxLifecycleCalls
    /\ Len(loops) < MaxLoops
    /\ IF cleanup_task = NoTask
       THEN /\ loops' = Append(loops, [pc |-> "created",
                                       must_cancel |-> FALSE])
            /\ cleanup_task' = Len(loops) + 1
       ELSE UNCHANGED <<loops, cleanup_task>>
    /\ lc_log' = [lc_log EXCEPT !.calls = @ + 1, !.stopped = FALSE]
    /\ UNCHANGED <<now, lc_pc, cbVars, rlVars, cacheVars, tm, metricVars,
                   wrapVars, retryVars, gatherVars, crudVars>>

\* Task.cancel: a request to a task that has not finished
Cancel(ls, id) ==
    IF Done(ls[id]) THEN ls ELSE [ls EXCEPT ![id].must_cancel = TRUE]

\* stop_cleanup_task, lines 113-119: with a task stored, it is cancelled
\* and awaited; awaiting a finished task does not suspend, so the handle is
\* cleared and the call returns in the same step; with none stored the
\* call returns at once
StopCleanupTask(t) ==
    /\ lc_pc[t].pc = "idle"
    /\ lc_log.calls < MaxLifecycleCalls
    /\ IF cleanup_task = NoTask
       THEN /\ lc_log' = [lc_log EXCEPT !.calls = @ + 1, !.stopped = TRUE]
            /\ UNCHANGED <<loops, cleanup_task, lc_pc>>
       ELSE /\ loops' = Cancel(loops, cleanup_task)
            /\ IF Done(loops[cleanup_task])
               THEN /\ cleanup_task' = NoTask
                    /\ lc_log' = [lc_log EXCEPT !.calls = @ + 1,
                                                !.stopped = TRUE]
                    /\ UNCHANGED lc_pc
               ELSE /\ lc_pc' = [lc_pc EXCEPT ![t] =
                           [pc |-> "await", task |-> cleanup_task]]
                    /\ lc_log' = [lc_log EXCEPT !.calls = @ + 1]
                    /\ UNCHANGED cleanup_task
    /\ UNCHANGED <<now, cbVars, rlVars, cacheVars, tm, metricVars,
                   wrapVars, retryVars, gatherVars, crudVars>>

\* stop_cleanup_task, lines 116-120: the awaited task has finished; the
\* handle is cleared and the call returns
StopResumes(t) ==
    /\ lc_pc[t].pc = "await"
    /\ Done(loops[lc_pc[t].task])
    /\ cleanup_task' = NoTask
    /\ lc_pc' = [lc_pc EXCEPT ![t] = [pc |-> "idle"]]
    /\ lc_log' = [lc_log EXCEPT !.stopped = TRUE]
    /\ UNCHANGED <<now, loops, cbVars, rlVars, cacheVars, tm, metricVars,
                   wrapVars, retryVars, gatherVars, crudVars>>

\* _cleanup_loop, lines 128-130: the first step of the task; a task
\* cancelled before it ran ends cancelled, otherwise it sleeps
LoopStarts(id) ==
    /\ loops[id].pc = "created"
    /\ loops' = [loops EXCEPT ![id].pc =
                    IF loops[id].must_cancel THEN "cancelled" ELSE "sleep"]
    /\ UNCHANGED <<now, cleanup_task, lc_pc, lc_log, cbVars, rlVars,
                   cacheVars, tm, metricVars, wrapVars, retryVars,
                   gatherVars, crudVars>>

\* _cleanup_loop, lines 132-133: CancelledError raised in the sleep: break
LoopCancelled(id) ==
    /\ loops[id].pc = "sleep"
    /\ loops[id].must_cancel
    /\ loops' = [loops EXCEPT ![id].pc = "done"]
    /\ UNCHANGED <<now, cleanup_task, lc_pc, lc_log, cbVars, rlVars,
                   cacheVars, tm, metricVars, wrapVars, retryVars,
                   gatherVars, crudVars>>

\* _cleanup_loop, lines 130-131: the sleep is over, one sweep cycle runs
\* (no suspension point inside) and the task sleeps again
LoopCycle(id) ==
    /\ loops[id].pc = "sleep"
    /\ ~loops[id].must_cancel
    /\ lc_log.sweeps < MaxSweeps
    /\ LET res == CleanupExpired(cache, stats, now)
       IN  /\ cache' = res.cache
           /\ stats' = res.stats
    /\ lc_log' = [lc_log EXCEPT
                     !.sweeps = @ + 1,
                     !.swept_after_stop = @ \/ lc_log.stopped]
    /\ UNCHANGED <<now, cleanup_task, loops, lc_pc, cache_pc, cache_ret,
                   ncalls, gets, lastSet, linVars, refVars, cbVars, rlVars,
                   tm, metricVars, wrapVars, retryVars, gatherVars, crudVars>>

CleanupNext ==
    \/ \E t \in Tasks :
          \/ StartCleanupTask(t)
          \/ StopCleanupTask(t)
          \/ StopResumes(t)
    \/ \E id \in DOMAIN loops :
          \/ LoopStarts(id)
          \/ LoopCancelled(id)
          \/ LoopCycle(id)

\* ----------------------------------- CacheService: the cleanup task, claims
LiveLoops == {id \in DOMAIN loops : ~Done(loops[id])}

\* C27: under every interleaving of start_cleanup_task and
\* stop_cleanup_task calls at most one sweep loop exists, and once a stop
\* has returned no sweep cycle runs until start is called again.
C27_OneSweepLoop ==
    /\ Cardinality(LiveLoops) <= 1
    /\ ~lc_log.swept_after_stop

\* ------------------------------------------------- CacheService: any ttl
\* the ttl arguments set accepts: omitted, positive, zero, negative
IntTtlArgs == TtlArgs \cup { <<0>>, <<-1>> }

CacheNextAnyTtl ==
    \/ Tick
    \/ \E t \in Tasks, key \in Keys :
          \/ CacheOp(t, "get", key, Absent, <<>>)
          \/ \E value \in Values, ttl \in IntTtlArgs :
                CacheOp(t, "set", key, value, ttl)

\* C28: every stored CacheEntry has expires_at > created_at, after any
\* sequence of set calls with any integer ttl the cache accepts.
C28_ExpiresAfterCreated ==
    \A key \in DOMAIN cache : cache[key].expires_at > cache[key].created_at

\* ------------------------------------------------- user routes: GET, PATCH
\* cache_key = f"user:{user_id}" of user 1, and the list pattern
user_key == <<"user:", "1">>
list_pattern == <<"users:list:">>

\* the ttl get_user stores with (line 142)
user_ttl == 300

CrudInit ==
    /\ db_user = 1
    /\ handlers = [t \in Tasks |-> [pc |-> "idle"]]
    /\ running = 0
    /\ crud_log = [requests |-> 0, updated |-> 1, responses |-> {}]

AwaitSuspends_yes == TRUE

\* every await of the two handlers ends in asyncio.Lock.acquire of a lock
\* that no task holds across a suspension point (db/memory.py 103, 115,
\* 214, 300; cache.py 168, 207, 233): it returns without suspending
AwaitSuspends == FALSE

\* the handler that has run a step keeps the event loop unless it has
\* returned or its await suspended
LoopAfter(t, returned) == IF returned \/ AwaitSuspends THEN 0 ELSE t

\* a request arrives and a task is created for its handler
Request(t, kind, update_dict) ==
    /\ handlers[t].pc = "idle"
    /\ crud_log.requests < MaxCrudRequests
    /\ handlers' = [handlers EXCEPT ![t] =
          IF kind = "get"
          THEN [pc |-> "cache_get", floor |-> crud_log.updated]
          ELSE [pc |-> "db_read", update_dict |-> update_dict]]
    /\ crud_log' = [crud_log EXCEPT !.requests = @ + 1]
    /\ UNCHANGED <<now, db_user, running, cbVars, rlVars, cacheVars, tm,
                   metricVars, wrapVars, retryVars, gatherVars,
                   cleanupVars>>

\* the GET response as the history keeps it
Answered(t, user) ==
    [crud_log EXCEPT !.responses =
        @ \cup {[floor |-> handlers[t].floor, served |-> user]}]

\* get_user, lines 124-129: the cache is read; a truthy value is returned
GetUserCacheGet(t) ==
    /\ handlers[t].pc = "cache_get"
    /\ running \in {0, t}
    /\ LET r == GetOp(cache, stats, user_key, now)
           cached_user == r.ret
       IN  /\ cache' = r.cache
           /\ stats' = r.stats
           /\ gets' = gets + 1
           /\ IF cached_user # Absent
              THEN /\ handlers' = [handlers EXCEPT ![t] = [pc |-> "idle"]]
                   /\ crud_log' = Answered(t, cached_user)
                   /\ running' = LoopAfter(t, TRUE)
              ELSE /\ handlers' = [handlers EXCEPT ![t].pc = "db_read_get"]
                   /\ running' = LoopAfter(t, FALSE)
                   /\ UNCHANGED crud_log
    /\ UNCHANGED <<now, db_user, cache_pc, cache_ret, ncalls, lastSet,
                   linVars, refVars, cbVars, rlVars, tm, metricVars,
                   wrapVars, retryVars, gatherVars, cleanupVars>>

\* get_user, line 132: the record is read from the database
GetUserDbRead(t) ==
    /\ handlers[t].pc = "db_read_get"
    /\ running \in {0, t}
    /\ handlers' = [handlers EXCEPT ![t] =
          [pc |-> "cache_set", floor |-> handlers[t].floor,
           user |-> db_user]]
    /\ running' = LoopAfter(t, FALSE)
    /\ UNCHANGED <<now, db_user, crud_log, cbVars, rlVars, cacheVars, tm,
                   metricVars, wrapVars, retryVars, gatherVars,
                   cleanupVars>>

\* get_user, lines 142-145: the record read is cached and returned
GetUserCacheSet(t) ==
    /\ handlers[t].pc = "cache_set"
    /\ running \in {0, t}
    /\ LET r == SetOp(cache, stats, user_key, handlers[t].user,
                      <<user_ttl>>, now)
       IN  /\ cache' = r.cache
           /\ stats' = r.stats
    /\ crud_log' = Answered(t, handlers[t].user)
    /\ handlers' = [handlers EXCEPT ![t] = [pc |-> "idle"]]
    /\ running' = LoopAfter(t, TRUE)
    /\ UNCHANGED <<now, db_user, cache_pc, cache_ret, ncalls, gets, lastSet,
                   linVars, refVars, cbVars, rlVars, tm, metricVars,
                   wrapVars, retryVars, gatherVars, cleanupVars>>

\* update_user_partial, lines 312-322: the user is read; with no field to
\* update the handler returns
UpdateDbRead(t) ==
    /\ handlers[t].pc = "db_read"
    /\ running \in {0, t}
    /\ IF handlers[t].update_dict = "empty"
       THEN /\ handlers' = [handlers EXCEPT ![t] = [pc |-> "idle"]]
            /\ running' = LoopAfter(t, TRUE)
       ELSE /\ handlers' = [handlers EXCEPT ![t].pc = "db_update"]
            /\ running' = LoopAfter(t, FALSE)
    /\ UNCHANGED <<now, db_user, crud_log, cbVars, rlVars, cacheVars, tm,
                   metricVars, wrapVars, retryVars, gatherVars,
                   cleanupVars>>

\* update_user_partial, line 325: the record is updated in the database
UpdateDbUpdate(t) ==
    /\ handlers[t].pc = "db_update"
    /\ running \in {0, t}
    /\ db_user' = db_user + 1
    /\ handlers' = [handlers EXCEPT ![t] =
          [pc |-> "cache_delete", updated_user |-> db_user + 1]]
    /\ running' = LoopAfter(t, FALSE)
    /\ UNCHANGED <<now, crud_log, cbVars, rlVars, cacheVars, tm,
                   metricVars, wrapVars, retryVars, gatherVars,
                   cleanupVars>>

\* update_user_partial, line 328: the user's cache entry is deleted
UpdateCacheDelete(t) ==
    /\ handlers[t].pc = "cache_delete"
    /\ running \in {0, t}
    /\ LET r == DeleteOp(cache, stats, user_key)
       IN  /\ cache' = r.cache
           /\ stats' = r.stats
    /\ handlers' = [handlers EXCEPT ![t].pc = "invalidate"]
    /\ running' = LoopAfter(t, FALSE)
    /\ UNCHANGED <<now, db_user, crud_log, cache_pc, cache_ret, ncalls,
                   gets, lastSet, linVars, refVars, cbVars, rlVars, tm,
                   metricVars, wrapVars, retryVars, gatherVars,
                   cleanupVars>>

\* update_user_partial, lines 329-332: the list caches are invalidated and
\* the handler returns
UpdateInvalidate(t) ==
    /\ handlers[t].pc = "invalidate"
    /\ running \in {0, t}
    /\ LET r == InvalidateOp(cache, stats, list_pattern)
       IN  /\ cache' = r.cache
           /\ stats' = r.stats
    /\ crud_log' = [crud_log EXCEPT !.updated =
          IF handlers[t].updated_user > @ THEN handlers[t].updated_user
          ELSE @]
    /\ handlers' = [handlers EXCEPT ![t] = [pc |-> "idle"]]
    /\ running' = LoopAfter(t, TRUE)
    /\ UNCHANGED <<now, db_user, cache_pc, cache_ret, ncalls, gets, lastSet,
                   linVars, refVars, cbVars, rlVars, tm, metricVars,
                   wrapVars, retryVars, gatherVars, cleanupVars>>

CrudNext ==
    \/ \E t \in Tasks :
          \/ Request(t, "get", "empty")
          \/ \E update_dict \in {"empty", "fields"} :
                Request(t, "patch", update_dict)
    \/ \E t \in Tasks :
          \/ GetUserCacheGet(t)
          \/ GetUserDbRead(t)
          \/ GetUserCacheSet(t)
    \/ \E t \in Tasks :
          \/ UpdateDbRead(t)
          \/ UpdateDbUpdate(t)
          \/ UpdateCacheDelete(t)
          \/ UpdateInvalidate(t)

\* ------------------------------------------------------ user routes: claims
\* C30: once an update of user 1 has completed, cache.delete included, no
\* GET that arrives later is answered with the record from before that
\* update, however the GET and update handlers are scheduled; and when all
\* handlers have finished the cache holds no record older than the
\* database's.
C30_CacheAsideCoherent ==
    /\ \A response \in crud_log.responses :
          response.served >= response.floor
    /\ (\A t \in Tasks : handlers[t].pc = "idle") =>
          (user_key \in DOMAIN cache => cache[user_key].value = db_user)

C30_Witness ==
    /\ [floor |-> 1, served |-> 1] \in crud_log.responses
    /\ [floor |-> 2, served |-> 2] \in crud_log.responses
    /\ stats.deletes = 1
    /\ user_key \in DOMAIN cache

Init ==
    /\ now = 0
    /\ CBInit
    /\ RLInit
    /\ CacheInit
    /\ TMInit
    /\ MetricsInit
    /\ CrudInit
    /\ CleanupInit
    /\ GatherInit
    /\ AsyncRetryInit
    /\ WrapperInit
    /\ path_of = [ip \in ClientIps |-> <<"api", "v1", "users">>]

\* the breaker under concurrent guarded calls
SpecCB == Init /\ [][CBNext]_vars

\* the rate limiter under concurrent requests of all clients to all paths
SpecRL == Init /\ [][RLNext]_vars

InitOneClass ==
    /\ now = 0
    /\ CBInit
    /\ RLInit
    /\ CacheInit
    /\ TMInit
    /\ MetricsInit
    /\ CrudInit
    /\ CleanupInit
    /\ GatherInit
    /\ AsyncRetryInit
    /\ WrapperInit
    /\ path_of \in [ClientIps -> Paths]

\* the rate limiter when each client keeps to one endpoint class
SpecRLOneClass == InitOneClass /\ [][RLNextOneClass]_vars

\* the cache under calls of all kinds, clock ticks and background sweeps
SpecCache == Init /\ [][CacheNext]_vars

\* the cache under read-only calls mixed with set and get calls
SpecCacheReads == Init /\ [][CacheNextReads]_vars

\* the cache under get/set/delete calls scheduled by concurrent tasks
SpecCacheGetSetDelete == Init /\ [][CacheNextGetSetDelete]_vars

\* the cache under set/delete/get/invalidate_pattern calls of concurrent tasks
SpecCachePattern == Init /\ [][CacheNextPattern]_vars

\* the cache and callers that mutate what they stored or were given
SpecCacheRefs == Init /\ [][CacheNextRefs]_vars

\* the retry_after computation over sub-second clock readings
SpecRetryAfter == Init /\ [][RetryAfterNext]_vars

\* requests passing the timeout middleware
SpecTM == Init /\ [][TMNext]_vars

\* requests passing the metrics middleware
SpecMetrics == Init /\ [][MetricsNext]_vars

\* calls of a function wrapped with cache_result
SpecWrapper == Init /\ [][WrapperNext]_vars

\* one call of a function wrapped by async_retry; the event loop runs the
\* wrapper whenever it can take a step, and func and the sleep terminate
SpecAsyncRetry ==
    Init /\ [][AsyncRetryNext]_vars /\ WF_vars(AsyncRetryNext)

\* one call of gather_with_concurrency; the event loop runs every task that
\* can take a step, and a coroutine that does not fail returns
SpecGather == Init /\ [][GatherNext]_vars /\ WF_vars(GatherNext)

\* start_cleanup_task and stop_cleanup_task called by concurrent tasks
SpecCleanup == Init /\ [][CleanupNext]_vars

\* the cache under set calls with any integer ttl
SpecCacheAnyTtl == Init /\ [][CacheNextAnyTtl]_vars

\* GET and PATCH requests for one user handled by concurrent tasks
SpecCrud == Init /\ [][CrudNext]_vars

=============================================================================
